---------------------------- MODULE Spec2Model ----------------------------
(***************************************************************************)
(* A model of the bootstrap layer of ripple: configuration loading and     *)
(* validation (src/src/config/mod.rs), the metrics registry                *)
(* (src/src/metrics/prometheus.rs) and the startup / shutdown sequence of  *)
(* main (src/src/main.rs).                                                 *)
(*                                                                         *)
(* Text is modelled as a sequence of characters, each character a          *)
(* one-character string.  The character "U+00E9" stands for the single     *)
(* non-ASCII letter e-acute, and "U+0663" for the Arabic-Indic digit       *)
(* three.  An Option<T> is a sequence of length 0 (None) or 1 (Some).      *)
(***************************************************************************)
EXTENDS Integers, Sequences, FiniteSets, TLC

(***************************************************************************)
(* Characters and strings                                                  *)
(***************************************************************************)

AsciiDigits == <<"0", "1", "2", "3", "4", "5", "6", "7", "8", "9">>

AsciiLower == <<"a", "b", "c", "d", "e", "f", "g", "h", "i", "j", "k", "l", "m", "n", "o", "p", "q", "r", "s", "t", "u", "v", "w", "x", "y", "z">>

AsciiUpper == <<"A", "B", "C", "D", "E", "F", "G", "H", "I", "J", "K", "L", "M", "N", "O", "P", "Q", "R", "S", "T", "U", "V", "W", "X", "Y", "Z">>

\* Characters outside ASCII that have the Unicode property Alphabetic or
\* a numeric general category.
NonAsciiAlphanumeric == {"U+00E9", "U+0663"}

Range(s) == {s[i] : i \in 1..Len(s)}

IndexOf(seq, c) == CHOOSE i \in 1..Len(seq) : seq[i] = c

IsAsciiDigit(c) == c \in Range(AsciiDigits)

DigitValue(c) == IndexOf(AsciiDigits, c) - 1

\* char::is_alphanumeric: Alphabetic or Numeric in the Unicode sense.
is_alphanumeric(c) ==
    \/ c \in Range(AsciiLower)
    \/ c \in Range(AsciiUpper)
    \/ c \in Range(AsciiDigits)
    \/ c \in NonAsciiAlphanumeric

\* char::to_lowercase on the characters of the model.
CharToLower(c) ==
    IF c \in Range(AsciiUpper) THEN AsciiLower[IndexOf(AsciiUpper, c)] ELSE c

\* str::to_lowercase
to_lowercase(s) == [i \in 1..Len(s) |-> CharToLower(s[i])]

\* str::starts_with
starts_with(s, prefix) ==
    /\ Len(s) >= Len(prefix)
    /\ SubSeq(s, 1, Len(prefix)) = prefix

\* The text of a character sequence as one string.
RECURSIVE Text(_)
Text(s) == IF s = <<>> THEN "" ELSE s[1] \o Text(Tail(s))

None == <<>>

Some(v) == <<v>>

IsSome(o) == Len(o) = 1

Ok(v) == [ok |-> TRUE, val |-> v]

(***************************************************************************)
(* FromStr for the types of the typed settings                             *)
(***************************************************************************)

U16MaxDigits == <<"6", "5", "5", "3", "5">>

U64MaxDigits == <<"1", "8", "4", "4", "6", "7", "4", "4", "0", "7", "3", "7", "0", "9", "5", "5", "1", "6", "1", "5">>

RECURSIVE StripLeadingZeros(_)
StripLeadingZeros(s) ==
    IF Len(s) > 1 /\ s[1] = "0" THEN StripLeadingZeros(Tail(s)) ELSE s

\* a < b for two digit strings of the same length
RECURSIVE DigitsLess(_, _)
DigitsLess(a, b) ==
    IF a = <<>> THEN FALSE
    ELSE IF a[1] # b[1] THEN DigitValue(a[1]) < DigitValue(b[1])
    ELSE DigitsLess(Tail(a), Tail(b))

\* The number a digit string denotes exceeds the one maxDigits denotes.
ExceedsMax(s, maxDigits) ==
    LET t == StripLeadingZeros(s)
    IN  \/ Len(t) > Len(maxDigits)
        \/ Len(t) = Len(maxDigits) /\ DigitsLess(maxDigits, t)

RECURSIVE DigitsValue(_, _)
DigitsValue(s, acc) ==
    IF s = <<>> THEN acc ELSE DigitsValue(Tail(s), acc * 10 + DigitValue(s[1]))

ParseFail(details) == [ok |-> FALSE, details |-> details]

\* <unsigned integer>::from_str: an optional "+", then one or more ASCII
\* digits; the value must fit the type.
ParseUnsigned(s, maxDigits) ==
    IF s = <<>> THEN ParseFail("cannot parse integer from empty string")
    ELSE LET body == IF s[1] = "+" THEN Tail(s) ELSE s
         IN  IF body = <<>> \/ \E i \in 1..Len(body) : ~IsAsciiDigit(body[i])
             THEN ParseFail("invalid digit found in string")
             ELSE IF ExceedsMax(body, maxDigits)
             THEN ParseFail("number too large to fit in target type")
             ELSE Ok(DigitsValue(body, 0))

\* bool::from_str accepts exactly "true" and "false".
ParseBool(s) ==
    IF s = <<"t", "r", "u", "e">> THEN Ok(TRUE)
    ELSE IF s = <<"f", "a", "l", "s", "e">> THEN Ok(FALSE)
    ELSE ParseFail("provided string was not true or false")

\* An f64 is modelled as [class, h]: class "finite" with h the value in
\* hundredths, class "nan", or class "inf" with h the sign.
Finite(h) == [class |-> "finite", h |-> h]

NaN == [class |-> "nan", h |-> 0]

Infinite(sign) == [class |-> "inf", h |-> sign]

DotIndex(s) ==
    IF "." \in Range(s) THEN IndexOf(s, ".") ELSE Len(s) + 1

\* f64::from_str on decimal literals without exponent and with at most
\* two fraction digits, and on the special values: an optional sign, then
\* "nan", "inf" or "infinity" in any case, or digits with an optional point.
ParseF64(s) ==
    LET signed == s # <<>> /\ s[1] \in {"+", "-"}
        sign == IF signed /\ s[1] = "-" THEN -1 ELSE 1
        body == IF signed THEN Tail(s) ELSE s
        low == to_lowercase(body)
        dot == DotIndex(body)
        int == SubSeq(body, 1, dot - 1)
        frac == SubSeq(body, dot + 1, Len(body))
    IN  IF s = <<>> THEN ParseFail("cannot parse float from empty string")
        ELSE IF low = <<"n", "a", "n">> THEN Ok(NaN)
        ELSE IF low \in {<<"i", "n", "f">>, <<"i", "n", "f", "i", "n", "i", "t", "y">>}
        THEN Ok(Infinite(sign))
        ELSE IF \/ int \o frac = <<>>
                \/ \E i \in 1..Len(int) : ~IsAsciiDigit(int[i])
                \/ \E i \in 1..Len(frac) : ~IsAsciiDigit(frac[i])
        THEN ParseFail("invalid float literal")
        ELSE Ok(Finite(sign * (DigitsValue(int, 0) * 100
                               + DigitsValue(frac, 0) * (10 ^ (2 - Len(frac))))))


(***************************************************************************)
(* Display of numbers (to_string)                                          *)
(***************************************************************************)

RECURSIVE FormatUnsigned(_)
FormatUnsigned(n) ==
    IF n < 10 THEN <<AsciiDigits[n + 1]>>
    ELSE FormatUnsigned(n \div 10) \o <<AsciiDigits[(n % 10) + 1]>>

\* f64's Display: the shortest decimal that reads back as the value.
FormatF64(v) ==
    IF v.class = "nan" THEN <<"N", "a", "N">>
    ELSE IF v.class = "inf"
    THEN (IF v.h < 0 THEN <<"-">> ELSE <<>>) \o <<"i", "n", "f">>
    ELSE LET a == IF v.h < 0 THEN -v.h ELSE v.h
             frac == a % 100
         IN  (IF v.h < 0 THEN <<"-">> ELSE <<>>)
             \o FormatUnsigned(a \div 100)
             \o (IF frac = 0 THEN <<>>
                 ELSE IF frac % 10 = 0 THEN <<".", AsciiDigits[(frac \div 10) + 1]>>
                 ELSE <<".", AsciiDigits[(frac \div 10) + 1], AsciiDigits[(frac % 10) + 1]>>)

(***************************************************************************)
(* ConfigurationError (src/src/utils/errors.rs)                            *)
(***************************************************************************)

MissingField(field) == [kind |-> "MissingField", field |-> field]

InvalidFormat(field, value, expected) ==
    [kind |-> "InvalidFormat", field |-> field, value |-> value, expected |-> expected]

InvalidRange(field, value, min, max) ==
    [kind |-> "InvalidRange", field |-> field, value |-> value, min |-> min, max |-> max]

ParseError(field, value, expected_type, details) ==
    [kind |-> "ParseError", field |-> field, value |-> value,
     expected_type |-> expected_type, details |-> details]

Err(e) == [ok |-> FALSE, err |-> e]

OkUnit == [ok |-> TRUE]

\* The Display of a ConfigurationError, as the sequence of the pieces its
\* format string concatenates: the literal text and each field in turn.
ConfigurationErrorDisplay(e) ==
    CASE e.kind = "MissingField" ->
           <<"Missing required configuration field: ", e.field>>
      [] e.kind = "InvalidFormat" ->
           <<"Invalid value for ", e.field, ": '", Text(e.value),
             "' (expected ", e.expected, ")">>
      [] e.kind = "InvalidRange" ->
           <<e.field, " value '", Text(e.value), "' is out of range [",
             e.min, ", ", e.max, "]">>
      [] e.kind = "ParseError" ->
           <<"Failed to parse ", e.field, ": '", Text(e.value),
             "' is not a valid ", e.expected_type, " (", e.details, ")">>

\* str::contains on a displayed message, for a needle that is one of the
\* pieces or lies within one.
MessageContains(pieces, needle) == \E i \in 1..Len(pieces) : pieces[i] = needle

(***************************************************************************)
(* Config::validate and its eleven rules (src/src/config/mod.rs)           *)
(***************************************************************************)

validate_port(port, name) ==
    IF port < 1024
    THEN Err(InvalidRange(name, FormatUnsigned(port), "1024", "65535"))
    ELSE OkUnit

\* (0.0..=1.0).contains(&x): 0.0 <= x && x <= 1.0, false for NaN.
validate_similarity_threshold(c) ==
    IF ~(c.similarity_threshold.class = "finite"
         /\ 0 <= c.similarity_threshold.h /\ c.similarity_threshold.h <= 100)
    THEN Err(InvalidRange("SIMILARITY_THRESHOLD", FormatF64(c.similarity_threshold),
                          "0.0", "1.0"))
    ELSE OkUnit

validate_ttl(c) ==
    IF c.cache_ttl_hours = 0
    THEN Err(InvalidRange("CACHE_TTL_HOURS", <<"0">>, "1", "unlimited"))
    ELSE OkUnit

\* validate_workers with the upper bound taken as exclusive.
validate_workers_exclusive(c) ==
    IF c.workers = 0 \/ c.workers >= 128
    THEN Err(InvalidRange("RIPPLE_WORKERS", FormatUnsigned(c.workers), "1", "128"))
    ELSE OkUnit

validate_workers(c) ==
    IF c.workers = 0 \/ c.workers > 128
    THEN Err(InvalidRange("RIPPLE_WORKERS", FormatUnsigned(c.workers), "1", "128"))
    ELSE OkUnit

validate_cache_size(c) ==
    IF c.max_cache_size = 0
    THEN Err(InvalidRange("MAX_CACHE_SIZE", <<"0">>, "1", "unlimited"))
    ELSE OkUnit

validate_embedding_dimension(c) ==
    IF c.embedding_dimension = 0 \/ c.embedding_dimension > 4096
    THEN Err(InvalidRange("EMBEDDING_DIMENSION", FormatUnsigned(c.embedding_dimension),
                          "1", "4096"))
    ELSE OkUnit

validate_url(url, name) ==
    IF ~starts_with(url, <<"h", "t", "t", "p", ":", "/", "/">>) /\ ~starts_with(url, <<"h", "t", "t", "p", "s", ":", "/", "/">>)
    THEN Err(InvalidFormat(name, url, "URL starting with http:// or https://"))
    ELSE OkUnit

valid_levels == {<<"t", "r", "a", "c", "e">>, <<"d", "e", "b", "u", "g">>, <<"i", "n", "f", "o">>, <<"w", "a", "r", "n">>, <<"e", "r", "r", "o", "r">>}

validate_log_level(c) ==
    IF to_lowercase(c.log_level) \notin valid_levels
    THEN Err(InvalidFormat("LOG_LEVEL", c.log_level,
                           "One of: trace, debug, info, warn, error"))
    ELSE OkUnit

valid_formats == {<<"t", "e", "x", "t">>, <<"j", "s", "o", "n">>}

validate_log_format(c) ==
    IF to_lowercase(c.log_format) \notin valid_formats
    THEN Err(InvalidFormat("LOG_FORMAT", c.log_format, "One of: text, json"))
    ELSE OkUnit

validate_collection_name(c) ==
    IF c.qdrant_collection_name = <<>>
    THEN Err(MissingField("QDRANT_COLLECTION_NAME"))
    ELSE IF ~(\A i \in 1..Len(c.qdrant_collection_name) :
                 \/ is_alphanumeric(c.qdrant_collection_name[i])
                 \/ c.qdrant_collection_name[i] = "_"
                 \/ c.qdrant_collection_name[i] = "-")
    THEN Err(InvalidFormat("QDRANT_COLLECTION_NAME", c.qdrant_collection_name,
                           "Alphanumeric characters, underscores, and hyphens only"))
    ELSE OkUnit

\* The first failure of a sequence of results, as a chain of `?` returns it.
FirstFailure(results) ==
    IF \E i \in 1..Len(results) : ~results[i].ok
    THEN results[CHOOSE i \in 1..Len(results) :
                    ~results[i].ok /\ \A j \in 1..(i - 1) : results[j].ok]
    ELSE OkUnit

\* validate with the worker count checked before the cache TTL.
validate_workers_before_ttl(c) ==
    FirstFailure(<<validate_port(c.port, "RIPPLE_PORT"),
                   validate_port(c.metrics_port, "METRICS_PORT"),
                   validate_similarity_threshold(c),
                   validate_workers(c),
                   validate_ttl(c),
                   validate_cache_size(c),
                   validate_embedding_dimension(c),
                   validate_url(c.qdrant_url, "QDRANT_URL"),
                   validate_log_level(c),
                   validate_log_format(c),
                   validate_collection_name(c)>>)

\* validate with a twelfth rule that rejects an embedding batch size of 0.
validate_rejects_zero_batch_size(c) ==
    FirstFailure(<<validate_port(c.port, "RIPPLE_PORT"),
                   validate_port(c.metrics_port, "METRICS_PORT"),
                   validate_similarity_threshold(c),
                   validate_ttl(c),
                   validate_workers(c),
                   validate_cache_size(c),
                   validate_embedding_dimension(c),
                   validate_url(c.qdrant_url, "QDRANT_URL"),
                   validate_log_level(c),
                   validate_log_format(c),
                   validate_collection_name(c),
                   IF c.embedding_batch_size = 0
                   THEN Err(InvalidRange("EMBEDDING_BATCH_SIZE", <<"0">>, "1", "unlimited"))
                   ELSE OkUnit>>)

validate(c) ==
    FirstFailure(<<validate_port(c.port, "RIPPLE_PORT"),
                   validate_port(c.metrics_port, "METRICS_PORT"),
                   validate_similarity_threshold(c),
                   validate_ttl(c),
                   validate_workers(c),
                   validate_cache_size(c),
                   validate_embedding_dimension(c),
                   validate_url(c.qdrant_url, "QDRANT_URL"),
                   validate_log_level(c),
                   validate_log_format(c),
                   validate_collection_name(c)>>)

(***************************************************************************)
(* The environment and Config::load (src/src/config/mod.rs)                *)
(***************************************************************************)

EnvKeys ==
    {"RIPPLE_PORT",
     "RIPPLE_WORKERS",
     "EMBEDDING_DIMENSION",
     "EMBEDDING_BATCH_SIZE",
     "EMBEDDING_CACHE_SIZE",
     "SIMILARITY_THRESHOLD",
     "CACHE_TTL_HOURS",
     "MAX_CACHE_SIZE",
     "ENABLE_L1_CACHE",
     "L1_CACHE_SIZE",
     "METRICS_ENABLED",
     "METRICS_PORT",
     "RIPPLE_HOST",
     "QDRANT_URL",
     "QDRANT_COLLECTION_NAME",
     "QDRANT_API_KEY",
     "EMBEDDING_MODEL_PATH",
     "OPENAI_API_KEY",
     "ANTHROPIC_API_KEY",
     "EXA_API_KEY",
     "LOG_LEVEL",
     "LOG_FORMAT",
     "LOG_FILE_PATH"}

\* The values the model supplies for each variable: the text exported
\* (raw), and for a typed setting the value that text denotes (denotes,
\* None when the text is not a literal of the setting's type).
InputChoices(k) ==
    CASE k = "RIPPLE_PORT" ->
           {[raw |-> <<"8", "0">>, denotes |-> <<80>>],
            [raw |-> <<"1", "0", "2", "3">>, denotes |-> <<1023>>],
            [raw |-> <<"1", "0", "2", "4">>, denotes |-> <<1024>>],
            [raw |-> <<"6", "5", "5", "3", "5">>, denotes |-> <<65535>>],
            [raw |-> <<"6", "5", "5", "3", "6">>, denotes |-> <<>>],
            [raw |-> <<"a", "b", "c">>, denotes |-> <<>>]}
      [] k = "RIPPLE_WORKERS" ->
           {[raw |-> <<"0">>, denotes |-> <<0>>],
            [raw |-> <<"1">>, denotes |-> <<1>>],
            [raw |-> <<"1", "2", "8">>, denotes |-> <<128>>],
            [raw |-> <<"1", "2", "9">>, denotes |-> <<129>>],
            [raw |-> <<>>, denotes |-> <<>>]}
      [] k = "EMBEDDING_DIMENSION" ->
           {[raw |-> <<"0">>, denotes |-> <<0>>],
            [raw |-> <<"1">>, denotes |-> <<1>>],
            [raw |-> <<"4", "0", "9", "6">>, denotes |-> <<4096>>],
            [raw |-> <<"4", "0", "9", "7">>, denotes |-> <<4097>>],
            [raw |-> <<"4", "k">>, denotes |-> <<>>]}
      [] k = "EMBEDDING_BATCH_SIZE" ->
           {[raw |-> <<"0">>, denotes |-> <<0>>],
            [raw |-> <<"3", "2">>, denotes |-> <<32>>],
            [raw |-> <<"x">>, denotes |-> <<>>]}
      [] k = "EMBEDDING_CACHE_SIZE" ->
           {[raw |-> <<"0">>, denotes |-> <<0>>],
            [raw |-> <<"1", ".", "5">>, denotes |-> <<>>]}
      [] k = "SIMILARITY_THRESHOLD" ->
           {[raw |-> <<"0", ".", "0">>, denotes |-> <<Finite(0)>>],
            [raw |-> <<"1", ".", "0">>, denotes |-> <<Finite(100)>>],
            [raw |-> <<"1", ".", "0", "1">>, denotes |-> <<Finite(101)>>],
            [raw |-> <<"1", ".", "5">>, denotes |-> <<Finite(150)>>],
            [raw |-> <<"-", "0", ".", "1">>, denotes |-> <<Finite(-10)>>],
            [raw |-> <<"N", "a", "N">>, denotes |-> <<NaN>>],
            [raw |-> <<"h", "i", "g", "h">>, denotes |-> <<>>]}
      [] k = "CACHE_TTL_HOURS" ->
           {[raw |-> <<"0">>, denotes |-> <<0>>],
            [raw |-> <<"1">>, denotes |-> <<1>>],
            [raw |-> <<"8", "7", "6", "0">>, denotes |-> <<8760>>],
            [raw |-> <<"-", "5">>, denotes |-> <<>>]}
      [] k = "MAX_CACHE_SIZE" ->
           {[raw |-> <<"0">>, denotes |-> <<0>>],
            [raw |-> <<"1">>, denotes |-> <<1>>],
            [raw |-> <<"9", "9", "9", "9", "9", "9", "9", "9">>, denotes |-> <<99999999>>],
            [raw |-> <<"1", "8", "4", "4", "6", "7", "4", "4", "0", "7", "3", "7", "0", "9", "5", "5", "1", "6", "1", "6">>, denotes |-> <<>>]}
      [] k = "ENABLE_L1_CACHE" ->
           {[raw |-> <<"t", "r", "u", "e">>, denotes |-> <<TRUE>>],
            [raw |-> <<"f", "a", "l", "s", "e">>, denotes |-> <<FALSE>>],
            [raw |-> <<"T", "R", "U", "E">>, denotes |-> <<>>]}
      [] k = "L1_CACHE_SIZE" ->
           {[raw |-> <<"0">>, denotes |-> <<0>>],
            [raw |-> <<"+", "5">>, denotes |-> <<5>>],
            [raw |-> <<" ", "7">>, denotes |-> <<>>]}
      [] k = "METRICS_ENABLED" ->
           {[raw |-> <<"f", "a", "l", "s", "e">>, denotes |-> <<FALSE>>],
            [raw |-> <<"y", "e", "s">>, denotes |-> <<>>]}
      [] k = "METRICS_PORT" ->
           {[raw |-> <<"4", "4", "3">>, denotes |-> <<443>>],
            [raw |-> <<"1", "0", "2", "4">>, denotes |-> <<1024>>],
            [raw |-> <<"6", "5", "5", "3", "5">>, denotes |-> <<65535>>],
            [raw |-> <<"-", "1">>, denotes |-> <<>>]}
      [] k = "RIPPLE_HOST" ->
           {[raw |-> <<>>],
            [raw |-> <<"1", "2", "7", ".", "0", ".", "0", ".", "1">>]}
      [] k = "QDRANT_URL" ->
           {[raw |-> <<"h", "t", "t", "p", "s", ":", "/", "/", "q">>],
            [raw |-> <<"h", "t", "t", "p", ":", "/", "/">>],
            [raw |-> <<"n", "o", "t", "-", "a", "-", "u", "r", "l">>],
            [raw |-> <<"H", "T", "T", "P", ":", "/", "/", "q">>]}
      [] k = "QDRANT_COLLECTION_NAME" ->
           {[raw |-> <<>>],
            [raw |-> <<"b", "a", "d", " ", "n", "a", "m", "e", "!">>],
            [raw |-> <<"m", "y", "-", "c", "o", "l", "l", "e", "c", "t", "i", "o", "n", "_", "v", "2">>],
            [raw |-> <<"c", "a", "f", "U+00E9">>],
            [raw |-> <<"U+0663">>]}
      [] k = "QDRANT_API_KEY" ->
           {[raw |-> <<"k">>]}
      [] k = "EMBEDDING_MODEL_PATH" ->
           {[raw |-> <<"m", ".", "o", "n", "n", "x">>]}
      [] k = "OPENAI_API_KEY" ->
           {[raw |-> <<"s", "k">>]}
      [] k = "ANTHROPIC_API_KEY" ->
           {[raw |-> <<"a">>]}
      [] k = "EXA_API_KEY" ->
           {[raw |-> <<>>]}
      [] k = "LOG_LEVEL" ->
           {[raw |-> <<"t", "r", "a", "c", "e">>],
            [raw |-> <<"D", "E", "B", "U", "G">>],
            [raw |-> <<"W", "a", "r", "n">>],
            [raw |-> <<"e", "r", "r", "o", "r">>],
            [raw |-> <<"v", "e", "r", "b", "o", "s", "e">>]}
      [] k = "LOG_FORMAT" ->
           {[raw |-> <<"j", "s", "o", "n">>],
            [raw |-> <<"J", "S", "O", "N">>],
            [raw |-> <<"J", "s", "o", "n">>],
            [raw |-> <<"T", "E", "X", "T">>],
            [raw |-> <<"x", "m", "l">>]}
      [] k = "LOG_FILE_PATH" ->
           {[raw |-> <<"/", "v", "a", "r", "/", "l", "o", "g", "/", "r", ".", "l", "o", "g">>]}

\* env_or_default
env_or_default(e, key, default) == IF IsSome(e[key]) THEN e[key][1] ELSE default

\* T::from_str for the target types of parse_env; usize is 64 bits wide.
FromStr(T, s) ==
    CASE T = "u16" -> ParseUnsigned(s, U16MaxDigits)
      [] T \in {"usize", "u64"} -> ParseUnsigned(s, U64MaxDigits)
      [] T = "f64" -> ParseF64(s)
      [] T = "bool" -> ParseBool(s)

\* parse_env that falls back to the default when the value does not parse.
parse_env_or_default(e, key, default, T) ==
    IF IsSome(e[key])
    THEN LET r == FromStr(T, e[key][1])
         IN  IF r.ok THEN Ok(r.val) ELSE Ok(default)
    ELSE Ok(default)

parse_env(e, key, default, T) ==
    IF IsSome(e[key])
    THEN LET r == FromStr(T, e[key][1])
         IN  IF r.ok THEN Ok(r.val)
             ELSE Err(ParseError(key, e[key][1], T, r.details))
    ELSE Ok(default)

\* num_cpus: available_parallelism, or 4 when it cannot be determined.
num_cpus(par) == IF IsSome(par) THEN par[1] ELSE 4

\* load that checks the range of the port as soon as the port is parsed,
\* before the later variables are parsed.
load_checks_port_when_parsed(e, par) ==
    LET port == parse_env(e, "RIPPLE_PORT", 8080, "u16")
        workers == parse_env(e, "RIPPLE_WORKERS", num_cpus(par), "usize")
        embedding_dimension == parse_env(e, "EMBEDDING_DIMENSION", 768, "usize")
        embedding_batch_size == parse_env(e, "EMBEDDING_BATCH_SIZE", 10, "usize")
        embedding_cache_size == parse_env(e, "EMBEDDING_CACHE_SIZE", 10000, "usize")
        similarity_threshold == parse_env(e, "SIMILARITY_THRESHOLD", Finite(85), "f64")
        cache_ttl_hours == parse_env(e, "CACHE_TTL_HOURS", 168, "u64")
        max_cache_size == parse_env(e, "MAX_CACHE_SIZE", 10000000, "usize")
        enable_l1_cache == parse_env(e, "ENABLE_L1_CACHE", TRUE, "bool")
        l1_cache_size == parse_env(e, "L1_CACHE_SIZE", 10000, "usize")
        metrics_enabled == parse_env(e, "METRICS_ENABLED", TRUE, "bool")
        metrics_port == parse_env(e, "METRICS_PORT", 9090, "u16")
        parsed == FirstFailure(<<port, workers, embedding_dimension,
                                 embedding_batch_size, embedding_cache_size,
                                 similarity_threshold, cache_ttl_hours,
                                 max_cache_size, enable_l1_cache, l1_cache_size,
                                 metrics_enabled, metrics_port>>)
        config ==
            [host |-> env_or_default(e, "RIPPLE_HOST", <<"0", ".", "0", ".", "0", ".", "0">>),
             port |-> port.val,
             workers |-> workers.val,
             qdrant_url |-> env_or_default(e, "QDRANT_URL", <<"h", "t", "t", "p", ":", "/", "/", "l", "o", "c", "a", "l", "h", "o", "s", "t", ":", "6", "3", "3", "3">>),
             qdrant_collection_name |->
                 env_or_default(e, "QDRANT_COLLECTION_NAME", <<"c", "a", "c", "h", "e", "_", "v", "e", "c", "t", "o", "r", "s">>),
             qdrant_api_key |-> e["QDRANT_API_KEY"],
             embedding_model_path |->
                 env_or_default(e, "EMBEDDING_MODEL_PATH", <<".", "/", "m", "o", "d", "e", "l", "s", "/", "n", "o", "m", "i", "c", "-", "e", "m", "b", "e", "d", "-", "t", "e", "x", "t", ".", "o", "n", "n", "x">>),
             embedding_dimension |-> embedding_dimension.val,
             embedding_batch_size |-> embedding_batch_size.val,
             embedding_cache_size |-> embedding_cache_size.val,
             similarity_threshold |-> similarity_threshold.val,
             cache_ttl_hours |-> cache_ttl_hours.val,
             max_cache_size |-> max_cache_size.val,
             enable_l1_cache |-> enable_l1_cache.val,
             l1_cache_size |-> l1_cache_size.val,
             openai_api_key |-> e["OPENAI_API_KEY"],
             anthropic_api_key |-> e["ANTHROPIC_API_KEY"],
             exa_api_key |-> e["EXA_API_KEY"],
             log_level |-> env_or_default(e, "LOG_LEVEL", <<"i", "n", "f", "o">>),
             log_format |-> env_or_default(e, "LOG_FORMAT", <<"t", "e", "x", "t">>),
             log_file_path |-> e["LOG_FILE_PATH"],
             metrics_enabled |-> metrics_enabled.val,
             metrics_port |-> metrics_port.val]
    IN  IF port.ok /\ ~validate_port(port.val, "RIPPLE_PORT").ok
        THEN validate_port(port.val, "RIPPLE_PORT")
        ELSE IF ~parsed.ok THEN parsed
        ELSE IF ~validate(config).ok THEN validate(config)
        ELSE Ok(config)

\* Config::load: the fields are evaluated in the order they are written,
\* the first failed parse returns; then validate.
load(e, par) ==
    LET port == parse_env(e, "RIPPLE_PORT", 8080, "u16")
        workers == parse_env(e, "RIPPLE_WORKERS", num_cpus(par), "usize")
        embedding_dimension == parse_env(e, "EMBEDDING_DIMENSION", 768, "usize")
        embedding_batch_size == parse_env(e, "EMBEDDING_BATCH_SIZE", 10, "usize")
        embedding_cache_size == parse_env(e, "EMBEDDING_CACHE_SIZE", 10000, "usize")
        similarity_threshold == parse_env(e, "SIMILARITY_THRESHOLD", Finite(85), "f64")
        cache_ttl_hours == parse_env(e, "CACHE_TTL_HOURS", 168, "u64")
        max_cache_size == parse_env(e, "MAX_CACHE_SIZE", 10000000, "usize")
        enable_l1_cache == parse_env(e, "ENABLE_L1_CACHE", TRUE, "bool")
        l1_cache_size == parse_env(e, "L1_CACHE_SIZE", 10000, "usize")
        metrics_enabled == parse_env(e, "METRICS_ENABLED", TRUE, "bool")
        metrics_port == parse_env(e, "METRICS_PORT", 9090, "u16")
        parsed == FirstFailure(<<port, workers, embedding_dimension,
                                 embedding_batch_size, embedding_cache_size,
                                 similarity_threshold, cache_ttl_hours,
                                 max_cache_size, enable_l1_cache, l1_cache_size,
                                 metrics_enabled, metrics_port>>)
        config ==
            [host |-> env_or_default(e, "RIPPLE_HOST", <<"0", ".", "0", ".", "0", ".", "0">>),
             port |-> port.val,
             workers |-> workers.val,
             qdrant_url |-> env_or_default(e, "QDRANT_URL", <<"h", "t", "t", "p", ":", "/", "/", "l", "o", "c", "a", "l", "h", "o", "s", "t", ":", "6", "3", "3", "3">>),
             qdrant_collection_name |->
                 env_or_default(e, "QDRANT_COLLECTION_NAME", <<"c", "a", "c", "h", "e", "_", "v", "e", "c", "t", "o", "r", "s">>),
             qdrant_api_key |-> e["QDRANT_API_KEY"],
             embedding_model_path |->
                 env_or_default(e, "EMBEDDING_MODEL_PATH", <<".", "/", "m", "o", "d", "e", "l", "s", "/", "n", "o", "m", "i", "c", "-", "e", "m", "b", "e", "d", "-", "t", "e", "x", "t", ".", "o", "n", "n", "x">>),
             embedding_dimension |-> embedding_dimension.val,
             embedding_batch_size |-> embedding_batch_size.val,
             embedding_cache_size |-> embedding_cache_size.val,
             similarity_threshold |-> similarity_threshold.val,
             cache_ttl_hours |-> cache_ttl_hours.val,
             max_cache_size |-> max_cache_size.val,
             enable_l1_cache |-> enable_l1_cache.val,
             l1_cache_size |-> l1_cache_size.val,
             openai_api_key |-> e["OPENAI_API_KEY"],
             anthropic_api_key |-> e["ANTHROPIC_API_KEY"],
             exa_api_key |-> e["EXA_API_KEY"],
             log_level |-> env_or_default(e, "LOG_LEVEL", <<"i", "n", "f", "o">>),
             log_format |-> env_or_default(e, "LOG_FORMAT", <<"t", "e", "x", "t">>),
             log_file_path |-> e["LOG_FILE_PATH"],
             metrics_enabled |-> metrics_enabled.val,
             metrics_port |-> metrics_port.val]
    IN  IF ~parsed.ok THEN parsed
        ELSE IF ~validate(config).ok THEN validate(config)
        ELSE Ok(config)

(***************************************************************************)
(* State                                                                   *)
(***************************************************************************)

VARIABLES
    env,           \* the process environment: variable name -> Option<text>
    parallelism,   \* what available_parallelism reports: Option<count>
    base,          \* the environment the process was started from
    result,        \* Option<Result<Config, ConfigurationError>> of Config::load
    validate_only, \* --validate-config is among the arguments
    pc,            \* where main stands
    exit_code,     \* Option<exit code> of the process
    printed,       \* what main wrote to stdout / stderr
    formatter,     \* the log formatter logging::init installed
    logged,        \* the tracing events emitted
    app_state,     \* Option<Config>: the Config inside the shared AppState
    metrics_task,  \* the spawned metrics listener task
    primary,       \* the primary listener (axum::serve with graceful shutdown)
    inflight,      \* requests in flight on the primary listener
    handlers,      \* the signal handlers of shutdown_signal are installed
    pending,       \* signals delivered to the installed handlers
    cause,         \* Option<signal>: the branch of select! that completed
    registry,      \* REGISTRY: the names of the registered collectors, in order
    register_calls, \* how many times register_metrics has been called
    panics,        \* how many calls of register_metrics have panicked
    counters,      \* the children of the counter vectors and their values
    gauges,        \* the values of the integer gauges
    store,         \* the condition of the external store (Qdrant)
    outbound,      \* how many outbound calls the probes have issued
    last_call,     \* Option<the last outbound call: its URL and its outcome>
    response,      \* Option<the last response of a health probe>
    raised,        \* Option<the error a subsystem has returned>
    unified,       \* Option<the RippleError built from it>
    shown,         \* Option<to_string() of that RippleError>
    gauge_test,    \* tests::test_gauge_update: its position and what get() returned
    tasks,         \* the tasks that increment one counter: where each stands
    snapshot       \* Option<the text the metrics handler last returned>

cfgVars == <<env, parallelism, base, result>>

procVars == <<validate_only, pc, exit_code, printed, formatter, logged, app_state,
              metrics_task, primary, inflight, handlers, pending, cause>>

metricVars == <<registry, register_calls, panics, counters, gauges>>

probeVars == <<store, outbound, last_call, response>>

errVars == <<raised, unified, shown>>

scrapeVars == <<tasks, snapshot>>

vars == <<cfgVars, procVars, metricVars, probeVars, errVars, gauge_test, scrapeVars>>

\* The twelve instruments, in the order register_metrics registers them.
Instruments ==
    <<"ripple_requests_total", "ripple_active_requests",
      "ripple_request_duration_seconds", "ripple_cache_hits_total",
      "ripple_cache_misses_total", "ripple_cache_size",
      "ripple_cache_evictions_total", "ripple_embedding_duration_seconds",
      "ripple_upstream_duration_seconds", "ripple_upstream_errors_total",
      "ripple_cost_saved_usd", "ripple_errors_total">>

IntGauges == {"ripple_active_requests", "ripple_cache_size"}

\* How many variables may differ from the starting environment.
MaxOverrides == 2

EmptyEnv == [k \in EnvKeys |-> None]

\* Every validated setting at the low end of its range.
LowEnv ==
    ("RIPPLE_PORT" :> Some(<<"1", "0", "2", "4">>)) @@
    ("METRICS_PORT" :> Some(<<"1", "0", "2", "4">>)) @@
    ("SIMILARITY_THRESHOLD" :> Some(<<"0", ".", "0">>)) @@
    ("CACHE_TTL_HOURS" :> Some(<<"1">>)) @@
    ("RIPPLE_WORKERS" :> Some(<<"1">>)) @@
    ("MAX_CACHE_SIZE" :> Some(<<"1">>)) @@
    ("EMBEDDING_DIMENSION" :> Some(<<"1">>)) @@
    ("QDRANT_URL" :> Some(<<"h", "t", "t", "p", ":", "/", "/">>)) @@
    ("LOG_LEVEL" :> Some(<<"T", "R", "A", "C", "E">>)) @@
    ("LOG_FORMAT" :> Some(<<"T", "E", "X", "T">>)) @@
    ("QDRANT_COLLECTION_NAME" :> Some(<<"_">>)) @@
    EmptyEnv

\* Every validated setting at the high end of its range.
HighEnv ==
    ("RIPPLE_PORT" :> Some(<<"6", "5", "5", "3", "5">>)) @@
    ("METRICS_PORT" :> Some(<<"6", "5", "5", "3", "5">>)) @@
    ("SIMILARITY_THRESHOLD" :> Some(<<"1", ".", "0">>)) @@
    ("CACHE_TTL_HOURS" :> Some(<<"8", "7", "6", "0">>)) @@
    ("RIPPLE_WORKERS" :> Some(<<"1", "2", "8">>)) @@
    ("MAX_CACHE_SIZE" :> Some(<<"9", "9", "9", "9", "9", "9", "9", "9">>)) @@
    ("EMBEDDING_DIMENSION" :> Some(<<"4", "0", "9", "6">>)) @@
    ("QDRANT_URL" :> Some(<<"h", "t", "t", "p", "s", ":", "/", "/", "q", "d", "r", "a", "n", "t", ".", "e", "x", "a", "m", "p", "l", "e", ".", "c", "o", "m">>)) @@
    ("LOG_LEVEL" :> Some(<<"E", "r", "r", "o", "r">>)) @@
    ("LOG_FORMAT" :> Some(<<"J", "s", "o", "n">>)) @@
    ("QDRANT_COLLECTION_NAME" :> Some(<<"M", "y", "-", "C", "o", "l", "l", "e", "c", "t", "i", "o", "n", "_", "v", "2">>)) @@
    EmptyEnv

\* The starting environments and the machines they run on.
Machines ==
    {[base |-> EmptyEnv, parallelism |-> Some(8)],
     [base |-> EmptyEnv, parallelism |-> Some(192)],
     [base |-> LowEnv, parallelism |-> None],
     [base |-> HighEnv, parallelism |-> Some(128)]}

\* The process before main has run a step.
ProcessNotStarted ==
    /\ validate_only = FALSE
    /\ pc = "start"
    /\ exit_code = None
    /\ printed = "nothing"
    /\ formatter = "none"
    /\ logged = {}
    /\ app_state = None
    /\ metrics_task = "none"
    /\ primary = "none"
    /\ inflight = 0
    /\ handlers = FALSE
    /\ pending = {}
    /\ cause = None

\* test_gauge_update has not been entered.
GaugeTestIdle == [pc |-> "idle", seen |-> <<>>]

\* No task has been started and /metrics has not been asked for.
NotScraped ==
    /\ tasks = <<>>
    /\ snapshot = None

\* lazy_static: an empty REGISTRY, no child of any vector, gauges at 0.
MetricsFresh ==
    /\ registry = <<>>
    /\ register_calls = 0
    /\ panics = 0
    /\ counters = <<>>
    /\ gauges = [g \in IntGauges |-> 0]
    /\ gauge_test = GaugeTestIdle
    /\ NotScraped

\* No probe has been answered yet; the store is up.
ProbesIdle ==
    /\ store = "up"
    /\ outbound = 0
    /\ last_call = None
    /\ response = None

\* No error has been returned yet.
NoError ==
    /\ raised = None
    /\ unified = None
    /\ shown = None

Overridden == {k \in EnvKeys : env[k] # base[k]}

InitConfig ==
    /\ \E m \in Machines :
          /\ base = m.base
          /\ env = m.base
          /\ parallelism = m.parallelism
    /\ result = None
    /\ ProcessNotStarted
    /\ MetricsFresh
    /\ ProbesIdle
    /\ NoError

\* std::env::set_var / remove_var before the configuration is loaded (the
\* environment as it stands once dotenvy::dotenv has merged the .env file).
SetVar(k, v) ==
    /\ result = None
    /\ env[k] = base[k]
    /\ v # base[k]
    /\ Cardinality(Overridden) < MaxOverrides
    /\ env' = [env EXCEPT ![k] = v]
    /\ UNCHANGED <<parallelism, base, result, procVars, metricVars, probeVars, errVars, gauge_test, scrapeVars>>

\* A call of Config::load.
LoadConfig ==
    /\ result = None
    /\ result' = Some(load(env, parallelism))
    /\ UNCHANGED <<env, parallelism, base, procVars, metricVars, probeVars, errVars, gauge_test, scrapeVars>>

NextConfig ==
    \/ \E k \in EnvKeys :
          \E v \in {Some(c.raw) : c \in InputChoices(k)} \cup {None} : SetVar(k, v)
    \/ LoadConfig

SpecConfig == InitConfig /\ [][NextConfig]_vars

(***************************************************************************)
(* The metrics registry (src/src/metrics/prometheus.rs)                    *)
(***************************************************************************)

\* Registry::register: a collector whose descriptors are already known to
\* the registry is refused with AlreadyReg.
register(reg, name) ==
    IF name \in Range(reg) THEN [ok |-> FALSE, err |-> "AlreadyReg"]
    ELSE Ok(Append(reg, name))

\* register_metrics from its i-th statement on: each register is
\* unwrapped, so the first refusal panics and the rest does not run.
RECURSIVE RegisterFrom(_, _)
RegisterFrom(reg, i) ==
    IF i > Len(Instruments) THEN [registry |-> reg, panicked |-> FALSE]
    ELSE IF register(reg, Instruments[i]).ok
    THEN RegisterFrom(register(reg, Instruments[i]).val, i + 1)
    ELSE [registry |-> reg, panicked |-> TRUE]

register_metrics(reg) == RegisterFrom(reg, 1)

\* tests::setup_registry from its i-th statement on: each result is dropped.
RECURSIVE SetupFrom(_, _)
SetupFrom(reg, i) ==
    IF i > Len(Instruments) THEN reg
    ELSE IF register(reg, Instruments[i]).ok
    THEN SetupFrom(register(reg, Instruments[i]).val, i + 1)
    ELSE SetupFrom(reg, i + 1)

setup_registry(reg) == SetupFrom(reg, 1)

\* How many calls of register_metrics one process makes.
MaxRegisterCalls == 2

\* The largest counter value, and the largest gauge magnitude.
MaxCount == 2

MaxGauge == 2

\* The label combinations the callers use.
CounterSeries ==
    {[name |-> "ripple_requests_total", labels |-> <<"openai", "hit">>],
     [name |-> "ripple_cache_hits_total", labels |-> <<"l1">>],
     [name |-> "ripple_cache_hits_total", labels |-> <<"l2">>]}

\* A call of register_metrics by some code path of the process.
CallRegisterMetrics ==
    /\ register_calls < MaxRegisterCalls
    /\ register_calls' = register_calls + 1
    /\ registry' = register_metrics(registry).registry
    /\ panics' = IF register_metrics(registry).panicked THEN panics + 1 ELSE panics
    /\ UNCHANGED <<counters, gauges, cfgVars, procVars, probeVars, errVars, gauge_test, scrapeVars>>

\* A call of the test helper setup_registry.
CallSetupRegistry ==
    /\ registry' = setup_registry(registry)
    /\ UNCHANGED <<register_calls, panics, counters, gauges, cfgVars, procVars, probeVars, errVars, gauge_test, scrapeVars>>

\* with_label_values(labels).get(): a child is created at 0 on first use.
CounterValue(s) == IF s \in DOMAIN counters THEN counters[s] ELSE 0

\* An inc() that reaches every child of the vector, whatever its labels.
CounterInc_EveryChild(s) ==
    /\ CounterValue(s) < MaxCount
    /\ counters' = [x \in (DOMAIN counters) \cup {s} |->
                       IF x.name = s.name THEN CounterValue(x) + 1 ELSE counters[x]]
    /\ UNCHANGED <<registry, register_calls, panics, gauges, cfgVars, procVars, probeVars, errVars, gauge_test, scrapeVars>>

\* <counter vector>.with_label_values(labels).inc()
CounterInc(s) ==
    /\ CounterValue(s) < MaxCount
    /\ counters' = [x \in (DOMAIN counters) \cup {s} |->
                       IF x = s THEN CounterValue(s) + 1 ELSE counters[x]]
    /\ UNCHANGED <<registry, register_calls, panics, gauges, cfgVars, procVars, probeVars, errVars, gauge_test, scrapeVars>>

\* IntGauge::set
GaugeSet(g, v) ==
    /\ gauges' = [gauges EXCEPT ![g] = v]
    /\ UNCHANGED <<registry, register_calls, panics, counters, cfgVars, procVars, probeVars, errVars, scrapeVars>>

\* IntGauge::inc
GaugeInc(g) ==
    /\ gauges[g] < MaxGauge
    /\ gauges' = [gauges EXCEPT ![g] = @ + 1]
    /\ UNCHANGED <<registry, register_calls, panics, counters, cfgVars, procVars, probeVars, errVars, scrapeVars>>

\* A dec() that stops at zero.
GaugeDec_Saturating(g) ==
    /\ gauges[g] > -MaxGauge
    /\ gauges' = [gauges EXCEPT ![g] = IF @ > 0 THEN @ - 1 ELSE 0]
    /\ UNCHANGED <<registry, register_calls, panics, counters, cfgVars, procVars, probeVars, errVars, scrapeVars>>

\* IntGauge::dec
GaugeDec(g) ==
    /\ gauges[g] > -MaxGauge
    /\ gauges' = [gauges EXCEPT ![g] = @ - 1]
    /\ UNCHANGED <<registry, register_calls, panics, counters, cfgVars, procVars, probeVars, errVars, scrapeVars>>

InitMetrics ==
    /\ env = EmptyEnv
    /\ base = EmptyEnv
    /\ parallelism = Some(8)
    /\ result = None
    /\ ProcessNotStarted
    /\ MetricsFresh
    /\ ProbesIdle
    /\ NoError

\* The gauge test_gauge_update works on, and the values it may set.
TestedGauge == "ripple_active_requests"

TestValues == {-1, 0, 1}

\* Lines 207-210: setup_registry(), set(v) and the first get().
GaugeTestSet(v) ==
    /\ gauge_test.pc = "idle"
    /\ gauges' = [gauges EXCEPT ![TestedGauge] = v]
    /\ registry' = setup_registry(registry)
    /\ gauge_test' = [pc |-> "set", seen |-> <<gauges'[TestedGauge]>>]
    /\ UNCHANGED <<register_calls, panics, counters, cfgVars, procVars, probeVars, errVars, scrapeVars>>

\* Lines 211-212: inc() and the second get().
GaugeTestInc ==
    /\ gauge_test.pc = "set"
    /\ GaugeInc(TestedGauge)
    /\ gauge_test' = [pc |-> "inc", seen |-> Append(gauge_test.seen, gauges'[TestedGauge])]

\* Lines 213-214: dec() and the third get().
GaugeTestDec ==
    /\ gauge_test.pc = "inc"
    /\ GaugeDec(TestedGauge)
    /\ gauge_test' = [pc |-> "dec", seen |-> Append(gauge_test.seen, gauges'[TestedGauge])]

\* The gauges other callers may write: nothing else writes the tested
\* gauge while the test is between its set and its last get.
FreeGauges ==
    IF gauge_test.pc \in {"set", "inc"} THEN IntGauges \ {TestedGauge} ELSE IntGauges

NextMetrics ==
    \/ CallRegisterMetrics
    \/ CallSetupRegistry
    \/ \E s \in CounterSeries : CounterInc(s)
    \/ \E g \in FreeGauges : \E v \in {0, MaxGauge} :
          GaugeSet(g, v) /\ UNCHANGED gauge_test
    \/ \E g \in FreeGauges : GaugeInc(g) /\ UNCHANGED gauge_test
    \/ \E g \in FreeGauges : GaugeDec(g) /\ UNCHANGED gauge_test
    \/ \E v \in TestValues : GaugeTestSet(v)
    \/ GaugeTestInc
    \/ GaugeTestDec

SpecMetrics == InitMetrics /\ [][NextMetrics]_vars

(***************************************************************************)
(* main: startup, the two listeners and shutdown (src/src/main.rs)         *)
(***************************************************************************)

\* How many requests the primary listener has in flight at once.
MaxInFlight == 2

Signals == {"SIGINT", "SIGTERM"}

\* The environments main is started in.
MainEnvs ==
    {EmptyEnv,
     [EmptyEnv EXCEPT !["RIPPLE_PORT"] = Some(<<"8", "0">>)],
     [EmptyEnv EXCEPT !["RIPPLE_PORT"] = Some(<<"a", "b", "c">>)],
     [EmptyEnv EXCEPT !["METRICS_ENABLED"] = Some(<<"f", "a", "l", "s", "e">>)],
     [EmptyEnv EXCEPT !["LOG_FORMAT"] = Some(<<"J", "S", "O", "N">>)],
     [EmptyEnv EXCEPT !["LOG_FORMAT"] = Some(<<"j", "s", "o", "n">>),
                      !["LOG_FILE_PATH"] = Some(<<"/", "v", "a", "r", "/", "l", "o", "g", "/", "r", ".", "l", "o", "g">>)],
     [EmptyEnv EXCEPT !["RIPPLE_WORKERS"] = Some(<<"2">>)]}

Init ==
    /\ env \in MainEnvs
    /\ base = env
    /\ parallelism = Some(8)
    /\ result = None
    /\ validate_only \in BOOLEAN
    /\ pc = "start"
    /\ exit_code = None
    /\ printed = "nothing"
    /\ formatter = "none"
    /\ logged = {}
    /\ app_state = None
    /\ metrics_task = "none"
    /\ primary = "none"
    /\ inflight = 0
    /\ handlers = FALSE
    /\ pending = {}
    /\ cause = None
    /\ MetricsFresh
    /\ ProbesIdle
    /\ NoError

\* Lines 31-32: #[tokio::main] builds the multi-thread runtime before the
\* body of main runs; its builder takes the number of worker threads from
\* the cores of the machine (1 when that is unknown), and no line of main
\* passes Config.workers to it.
worker_threads(par) == IF IsSome(par) THEN par[1] ELSE 1

Alive == pc \notin {"exited", "killed"}

\* What becomes of the metrics task when the process ends: the runtime is
\* dropped and a task still running goes with it.
AtProcessEnd(task) == IF task \in {"spawned", "listening"} THEN "ended" ELSE task

\* main that forgets to exit after a successful validate-only load.
LoadStep_ValidateOnlyContinues ==
    /\ pc = "start"
    /\ result' = Some(load(env, parallelism))
    /\ IF load(env, parallelism).ok
       THEN /\ printed' = (IF validate_only THEN "Configuration valid" ELSE printed)
            /\ pc' = "logging"
            /\ UNCHANGED exit_code
       ELSE /\ printed' = "Configuration error"
            /\ exit_code' = Some(1)
            /\ pc' = "exited"
    /\ UNCHANGED <<env, parallelism, base, validate_only, formatter, logged,
                   app_state, metrics_task, primary, inflight, handlers, pending,
                   cause, metricVars, probeVars, errVars, gauge_test, scrapeVars>>

\* main that initialises the metrics before it loads the configuration.
LoadStep_RegistersMetricsFirst ==
    /\ pc = "start"
    /\ register_calls' = register_calls + 1
    /\ registry' = setup_registry(registry)
    /\ result' = Some(load(env, parallelism))
    /\ IF load(env, parallelism).ok
       THEN IF validate_only
            THEN /\ printed' = "Configuration valid"
                 /\ exit_code' = Some(0)
                 /\ pc' = "exited"
            ELSE /\ pc' = "logging"
                 /\ UNCHANGED <<printed, exit_code>>
       ELSE /\ printed' = "Configuration error"
            /\ exit_code' = Some(1)
            /\ pc' = "exited"
    /\ UNCHANGED <<env, parallelism, base, validate_only, formatter, logged,
                   app_state, metrics_task, primary, inflight, handlers, pending,
                   cause, panics, counters, gauges, probeVars, errVars, gauge_test, scrapeVars>>

\* Lines 34-53: the arguments, Config::load and the match on its result.
\* Returning Err from main exits with code 1, as process::exit(1) does.
LoadStep ==
    /\ pc = "start"
    /\ result' = Some(load(env, parallelism))
    /\ IF load(env, parallelism).ok
       THEN IF validate_only
            THEN /\ printed' = "Configuration valid"
                 /\ exit_code' = Some(0)
                 /\ pc' = "exited"
            ELSE /\ pc' = "logging"
                 /\ UNCHANGED <<printed, exit_code>>
       ELSE /\ printed' = "Configuration error"
            /\ exit_code' = Some(1)
            /\ pc' = "exited"
    /\ UNCHANGED <<env, parallelism, base, validate_only, formatter, logged,
                   app_state, metrics_task, primary, inflight, handlers, pending,
                   cause, metricVars, probeVars, errVars, gauge_test, scrapeVars>>

\* logging::init (src/src/utils/logging.rs): the formatter is JSON exactly
\* when log_format is the text "json"; creating the directory of the log
\* file is the step that the file system can refuse.
LoggingFormatter(c) == IF c.log_format = <<"j", "s", "o", "n">> THEN "json" ELSE "text"

\* Lines 56-58.
InitLogging ==
    /\ pc = "logging"
    /\ \E created \in (IF IsSome(result[1].val.log_file_path) THEN BOOLEAN ELSE {TRUE}) :
          IF created
          THEN /\ formatter' = LoggingFormatter(result[1].val)
               /\ logged' = logged \cup {"Ripple starting up",
                                         "Configuration loaded successfully"}
               /\ pc' = "metrics"
               /\ UNCHANGED exit_code
          ELSE /\ exit_code' = Some(1)
               /\ pc' = "exited"
               /\ UNCHANGED <<formatter, logged>>
    /\ UNCHANGED <<cfgVars, validate_only, printed, app_state, metrics_task,
                   primary, inflight, handlers, pending, cause, metricVars, probeVars, errVars, gauge_test, scrapeVars>>

\* Lines 61-62: a panic of register_metrics unwinds main (exit code 101).
RegisterStep ==
    /\ pc = "metrics"
    /\ register_calls' = register_calls + 1
    /\ registry' = register_metrics(registry).registry
    /\ IF register_metrics(registry).panicked
       THEN /\ panics' = panics + 1
            /\ exit_code' = Some(101)
            /\ pc' = "exited"
            /\ UNCHANGED logged
       ELSE /\ logged' = logged \cup {"Metrics system initialized"}
            /\ pc' = "state"
            /\ UNCHANGED <<panics, exit_code>>
    /\ UNCHANGED <<cfgVars, validate_only, printed, formatter, app_state,
                   metrics_task, primary, inflight, handlers, pending, cause,
                   counters, gauges, probeVars, errVars, gauge_test, scrapeVars>>

\* Lines 65-79: the shared AppState and the two routers.
BuildState ==
    /\ pc = "state"
    /\ app_state' = Some(result[1].val)
    /\ pc' = "spawn"
    /\ UNCHANGED <<cfgVars, validate_only, exit_code, printed, formatter, logged,
                   metrics_task, primary, inflight, handlers, pending, cause,
                   metricVars, probeVars, errVars, gauge_test, scrapeVars>>

\* main that spawns the metrics listener only when metrics_enabled is set.
SpawnMetrics_OnlyWhenEnabled ==
    /\ pc = "spawn"
    /\ metrics_task' = IF result[1].val.metrics_enabled THEN "spawned" ELSE metrics_task
    /\ pc' = "bind"
    /\ UNCHANGED <<cfgVars, validate_only, exit_code, printed, formatter, logged,
                   app_state, primary, inflight, handlers, pending, cause,
                   metricVars, probeVars, errVars, gauge_test, scrapeVars>>

\* Lines 82-88: tokio::spawn of the metrics listener task.
SpawnMetrics ==
    /\ pc = "spawn"
    /\ metrics_task' = "spawned"
    /\ pc' = "bind"
    /\ UNCHANGED <<cfgVars, validate_only, exit_code, printed, formatter, logged,
                   app_state, primary, inflight, handlers, pending, cause,
                   metricVars, probeVars, errVars, gauge_test, scrapeVars>>

\* Lines 84-87, inside the task: bind(..).await.unwrap() either listens or
\* panics the task; a panic of a spawned task ends that task alone.
MetricsBind ==
    /\ Alive
    /\ metrics_task = "spawned"
    /\ \E bound \in BOOLEAN :
          metrics_task' = IF bound THEN "listening" ELSE "panicked"
    /\ logged' = logged \cup {"Metrics server listening"}
    /\ UNCHANGED <<cfgVars, validate_only, pc, exit_code, printed, formatter,
                   app_state, primary, inflight, handlers, pending, cause,
                   metricVars, probeVars, errVars, gauge_test, scrapeVars>>

\* Lines 91-99: bind of the primary listener; on success the server future
\* is awaited, and its first poll installs the handlers of shutdown_signal.
\* A bind error is returned from main with `?`.
BindPrimary ==
    /\ pc = "bind"
    /\ logged' = logged \cup {"Ripple proxy listening"}
    /\ \E bound \in BOOLEAN :
          IF bound
          THEN /\ primary' = "accepting"
               /\ handlers' = TRUE
               /\ pc' = "serving"
               /\ UNCHANGED <<exit_code, metrics_task>>
          ELSE /\ exit_code' = Some(1)
               /\ metrics_task' = AtProcessEnd(metrics_task)
               /\ pc' = "exited"
               /\ UNCHANGED <<primary, handlers>>
    /\ UNCHANGED <<cfgVars, validate_only, printed, formatter, app_state,
                   inflight, pending, cause, metricVars, probeVars, errVars, gauge_test, scrapeVars>>

\* The primary listener accepts a connection and starts a request.
Accept ==
    /\ pc = "serving"
    /\ primary = "accepting"
    /\ inflight < MaxInFlight
    /\ inflight' = inflight + 1
    /\ UNCHANGED <<cfgVars, validate_only, pc, exit_code, printed, formatter,
                   logged, app_state, metrics_task, primary, handlers, pending,
                   cause, metricVars, probeVars, errVars, gauge_test, scrapeVars>>

\* A request in flight finishes.
Complete ==
    /\ Alive
    /\ inflight > 0
    /\ inflight' = inflight - 1
    /\ UNCHANGED <<cfgVars, validate_only, pc, exit_code, printed, formatter,
                   logged, app_state, metrics_task, primary, handlers, pending,
                   cause, metricVars, probeVars, errVars, gauge_test, scrapeVars>>

\* The operating system delivers SIGINT or SIGTERM.  Before the handlers of
\* shutdown_signal are installed the default disposition ends the process.
Deliver(s) ==
    /\ Alive
    /\ s \notin pending
    /\ IF handlers
       THEN /\ pending' = pending \cup {s}
            /\ UNCHANGED <<pc, metrics_task>>
       ELSE /\ pc' = "killed"
            /\ metrics_task' = AtProcessEnd(metrics_task)
            /\ UNCHANGED pending
    /\ UNCHANGED <<cfgVars, validate_only, exit_code, printed, formatter, logged,
                   app_state, primary, inflight, handlers, cause, metricVars, probeVars, errVars, gauge_test, scrapeVars>>

\* shutdown_signal whose terminate branch ends the server without draining.
ShutdownSignal_TerminateSkipsDrain ==
    /\ pc = "serving"
    /\ primary = "accepting"
    /\ \E s \in pending :
          /\ cause' = Some(s)
          /\ pending' = pending \ {s}
          /\ logged' = logged \cup {IF s = "SIGINT"
                                    THEN "Received Ctrl+C, shutting down"
                                    ELSE "Received SIGTERM, shutting down"}
          /\ IF s = "SIGTERM"
             THEN primary' = "done" /\ pc' = "shutdown"
             ELSE primary' = "draining" /\ UNCHANGED pc
    /\ UNCHANGED <<cfgVars, validate_only, exit_code, printed, formatter,
                   app_state, metrics_task, inflight, handlers, metricVars, probeVars, errVars, gauge_test, scrapeVars>>

\* Lines 109-131: select! completes with a branch whose signal has arrived;
\* the graceful shutdown of axum::serve closes the listener and drains.
ShutdownSignal ==
    /\ pc = "serving"
    /\ primary = "accepting"
    /\ \E s \in pending :
          /\ cause' = Some(s)
          /\ pending' = pending \ {s}
          /\ logged' = logged \cup {IF s = "SIGINT"
                                    THEN "Received Ctrl+C, shutting down"
                                    ELSE "Received SIGTERM, shutting down"}
    /\ primary' = "draining"
    /\ UNCHANGED <<cfgVars, validate_only, pc, exit_code, printed, formatter,
                   app_state, metrics_task, inflight, handlers, metricVars, probeVars, errVars, gauge_test, scrapeVars>>

\* A server that returns at the signal without waiting for its requests.
DrainComplete_WithoutWaiting ==
    /\ pc = "serving"
    /\ primary = "draining"
    /\ primary' = "done"
    /\ pc' = "shutdown"
    /\ UNCHANGED <<cfgVars, validate_only, exit_code, printed, formatter, logged,
                   app_state, metrics_task, inflight, handlers, pending, cause,
                   metricVars, probeVars, errVars, gauge_test, scrapeVars>>

\* Line 99: server.await returns Ok once the last request has finished.
DrainComplete ==
    /\ pc = "serving"
    /\ primary = "draining"
    /\ inflight = 0
    /\ primary' = "done"
    /\ pc' = "shutdown"
    /\ UNCHANGED <<cfgVars, validate_only, exit_code, printed, formatter, logged,
                   app_state, metrics_task, inflight, handlers, pending, cause,
                   metricVars, probeVars, errVars, gauge_test, scrapeVars>>

\* main that returns the error of the server with `?` instead of logging it.
ServeError_Propagates ==
    /\ pc = "serving"
    /\ primary \in {"accepting", "draining"}
    /\ primary' = "failed"
    /\ exit_code' = Some(1)
    /\ metrics_task' = AtProcessEnd(metrics_task)
    /\ pc' = "exited"
    /\ UNCHANGED <<cfgVars, validate_only, printed, formatter, logged,
                   app_state, inflight, handlers, pending, cause,
                   metricVars, probeVars, errVars, gauge_test, scrapeVars>>

\* Lines 99-101: server.await returns an error, which is logged.
ServeError ==
    /\ pc = "serving"
    /\ primary \in {"accepting", "draining"}
    /\ primary' = "failed"
    /\ logged' = logged \cup {"Server error"}
    /\ pc' = "shutdown"
    /\ UNCHANGED <<cfgVars, validate_only, exit_code, printed, formatter,
                   app_state, metrics_task, inflight, handlers, pending, cause,
                   metricVars, probeVars, errVars, gauge_test, scrapeVars>>

\* main awaiting the metrics task to its end instead of aborting it.
AbortMetrics_Join ==
    /\ pc = "shutdown"
    /\ metrics_task \notin {"spawned", "listening"}
    /\ logged' = logged \cup {"Ripple shutting down gracefully"}
    /\ pc' = "return"
    /\ UNCHANGED <<cfgVars, validate_only, exit_code, printed, formatter,
                   app_state, metrics_task, primary, inflight, handlers, pending,
                   cause, metricVars, probeVars, errVars, gauge_test, scrapeVars>>

\* Lines 103-104: the final log line and metrics_handle.abort(), which
\* cancels the task if it is still running.
AbortMetrics ==
    /\ pc = "shutdown"
    /\ logged' = logged \cup {"Ripple shutting down gracefully"}
    /\ metrics_task' = IF metrics_task \in {"spawned", "listening"}
                       THEN "aborted" ELSE metrics_task
    /\ pc' = "return"
    /\ UNCHANGED <<cfgVars, validate_only, exit_code, printed, formatter,
                   app_state, primary, inflight, handlers, pending, cause,
                   metricVars, probeVars, errVars, gauge_test, scrapeVars>>

\* Line 105: Ok(()) leaves main; the process exits with code 0.
Return ==
    /\ pc = "return"
    /\ exit_code' = Some(0)
    /\ pc' = "exited"
    /\ UNCHANGED <<cfgVars, validate_only, printed, formatter, logged, app_state,
                   metrics_task, primary, inflight, handlers, pending, cause,
                   metricVars, probeVars, errVars, gauge_test, scrapeVars>>

Next ==
    \/ LoadStep
    \/ InitLogging
    \/ RegisterStep
    \/ BuildState
    \/ SpawnMetrics
    \/ MetricsBind
    \/ BindPrimary
    \/ Accept
    \/ Complete
    \/ \E s \in Signals : Deliver(s)
    \/ ShutdownSignal
    \/ DrainComplete
    \/ ServeError
    \/ AbortMetrics
    \/ Return

Spec == Init /\ [][Next]_vars

\* The runtime polls every task that is ready, so each step of main and of
\* the server that stays enabled is taken; requests in flight finish.
Fairness ==
    /\ WF_vars(ShutdownSignal)
    /\ WF_vars(Complete)
    /\ WF_vars(DrainComplete)
    /\ WF_vars(AbortMetrics)
    /\ WF_vars(Return)

SpecLive == Spec /\ Fairness

(***************************************************************************)
(* Health probes (src/src/utils/health.rs)                                 *)
(***************************************************************************)

\* Duration::from_secs(3): the timeout of the outbound call.
TimeoutSecs == 3

\* How many outbound calls the probes issue in one run.
MaxProbes == 2

\* The largest uptime, in whole seconds, a probe observes.
MaxUptime == 1

StoreConditions == {"up", "failing", "unreachable", "slow"}

\* What the network can deliver for one GET, given the store's condition:
\* a response with its status after so many seconds, or no connection.
Outcomes(condition) ==
    CASE condition = "up" ->
            {[kind |-> "response", status |-> s, latency |-> l] :
                s \in {200, 204}, l \in {0, TimeoutSecs - 1}}
      [] condition = "failing" ->
            {[kind |-> "response", status |-> s, latency |-> 0] : s \in {404, 503}}
      [] condition = "unreachable" ->
            {[kind |-> "connect_error", status |-> 0, latency |-> 0]}
      [] condition = "slow" ->
            {[kind |-> "response", status |-> 200, latency |-> TimeoutSecs + 2]}

\* format!("{}/healthz", qdrant_url)
HealthzUrl(qdrant_url) == qdrant_url \o <<"/", "h", "e", "a", "l", "t", "h", "z">>

\* RequestBuilder::timeout(3 s).send().await: a response that has not
\* arrived when the timeout elapses is an Err, as a failed connection is.
send(outcome) ==
    IF outcome.kind = "connect_error" THEN [ok |-> FALSE, err |-> "connect"]
    ELSE IF outcome.latency >= TimeoutSecs THEN [ok |-> FALSE, err |-> "timeout"]
    ELSE Ok(outcome.status)

\* StatusCode::is_success: 200..=299
is_success(status) == status >= 200 /\ status <= 299

\* check_qdrant that takes every response, whatever its status, as healthy.
check_qdrant_any_response(outcome) == send(outcome).ok

check_qdrant(outcome) ==
    IF send(outcome).ok THEN is_success(send(outcome).val) ELSE FALSE

liveness == [probe |-> "liveness", code |-> 200, status |-> "alive"]

readiness(qdrant_ok) ==
    IF qdrant_ok
    THEN [probe |-> "readiness", code |-> 200, status |-> "ready",
          qdrant |-> "healthy"]
    ELSE [probe |-> "readiness", code |-> 503, status |-> "not_ready",
          qdrant |-> "unhealthy"]

\* detailed_status that answers 503 when the store check failed.
detailed_status_unavailable(state, qdrant_ok, uptime_secs) ==
    [probe |-> "detailed_status",
     code |-> IF qdrant_ok THEN 200 ELSE 503,
     status |-> IF qdrant_ok THEN "healthy" ELSE "degraded",
     uptime_seconds |-> uptime_secs,
     qdrant |-> IF qdrant_ok THEN "healthy" ELSE "unhealthy",
     qdrant_url |-> state.qdrant_url,
     embedding_model |-> "not_loaded",
     embedding_model_path |-> state.embedding_model_path,
     cache_ttl_hours |-> state.cache_ttl_hours,
     similarity_threshold |-> state.similarity_threshold,
     max_cache_size |-> state.max_cache_size]

detailed_status(state, qdrant_ok, uptime_secs) ==
    [probe |-> "detailed_status",
     code |-> 200,
     status |-> IF qdrant_ok THEN "healthy" ELSE "degraded",
     uptime_seconds |-> uptime_secs,
     qdrant |-> IF qdrant_ok THEN "healthy" ELSE "unhealthy",
     qdrant_url |-> state.qdrant_url,
     embedding_model |-> "not_loaded",
     embedding_model_path |-> state.embedding_model_path,
     cache_ttl_hours |-> state.cache_ttl_hours,
     similarity_threshold |-> state.similarity_threshold,
     max_cache_size |-> state.max_cache_size]

\* A handler of the primary router runs for a request in flight.
Handling ==
    /\ pc = "serving"
    /\ primary \in {"accepting", "draining"}
    /\ inflight > 0

\* A liveness handler that asks the store before it answers.
Liveness_ChecksStore ==
    /\ Handling
    /\ outbound < MaxProbes
    /\ \E o \in Outcomes(store) :
          /\ last_call' = Some([url |-> HealthzUrl(app_state[1].qdrant_url),
                                outcome |-> o])
          /\ response' = Some(IF check_qdrant(o) THEN liveness
                              ELSE [liveness EXCEPT !.code = 503])
    /\ outbound' = outbound + 1
    /\ UNCHANGED <<cfgVars, procVars, metricVars, errVars, store, gauge_test, scrapeVars>>

\* GET /health/live
Liveness ==
    /\ Handling
    /\ response' = Some(liveness)
    /\ UNCHANGED <<cfgVars, procVars, metricVars, errVars, store, outbound, last_call, gauge_test, scrapeVars>>

\* A readiness handler that asks the store a second time when the first
\* check fails.
Readiness_RetriesOnce ==
    /\ Handling
    /\ outbound < MaxProbes
    /\ \E first \in Outcomes(store) : \E second \in Outcomes(store) :
          IF check_qdrant(first)
          THEN /\ last_call' = Some([url |-> HealthzUrl(app_state[1].qdrant_url),
                                     outcome |-> first])
               /\ response' = Some(readiness(TRUE))
               /\ outbound' = outbound + 1
          ELSE /\ last_call' = Some([url |-> HealthzUrl(app_state[1].qdrant_url),
                                     outcome |-> second])
               /\ response' = Some(readiness(check_qdrant(second)))
               /\ outbound' = outbound + 2
    /\ UNCHANGED <<cfgVars, procVars, metricVars, errVars, gauge_test, scrapeVars, store>>

\* GET /health/ready
Readiness ==
    /\ Handling
    /\ outbound < MaxProbes
    /\ \E o \in Outcomes(store) :
          /\ last_call' = Some([url |-> HealthzUrl(app_state[1].qdrant_url),
                                outcome |-> o])
          /\ response' = Some(readiness(check_qdrant(o)))
    /\ outbound' = outbound + 1
    /\ UNCHANGED <<cfgVars, procVars, metricVars, errVars, store, gauge_test, scrapeVars>>

\* GET /health/status
DetailedStatus ==
    /\ Handling
    /\ outbound < MaxProbes
    /\ \E o \in Outcomes(store) : \E up \in 0..MaxUptime :
          /\ last_call' = Some([url |-> HealthzUrl(app_state[1].qdrant_url),
                                outcome |-> o])
          /\ response' = Some(detailed_status(app_state[1], check_qdrant(o), up))
    /\ outbound' = outbound + 1
    /\ UNCHANGED <<cfgVars, procVars, metricVars, errVars, store, gauge_test, scrapeVars>>

\* The store, or the network to it, changes condition.
StoreChange ==
    /\ \E c \in StoreConditions \ {store} : store' = c
    /\ UNCHANGED <<cfgVars, procVars, metricVars, errVars, outbound, last_call, response, gauge_test, scrapeVars>>

HealthEnvs ==
    {EmptyEnv,
     [EmptyEnv EXCEPT !["QDRANT_URL"] = Some(<<"h", "t", "t", "p", "s", ":", "/", "/", "q", "d", "r", "a", "n", "t", ".", "e", "x", "a", "m", "p", "l", "e", ".", "c", "o", "m">>)]}

\* The process as main leaves it once both listeners are up and the
\* server future is being awaited.
InitHealth ==
    /\ env \in HealthEnvs
    /\ base = env
    /\ parallelism = Some(8)
    /\ result = Some(load(env, parallelism))
    /\ validate_only = FALSE
    /\ pc = "serving"
    /\ exit_code = None
    /\ printed = "nothing"
    /\ formatter = LoggingFormatter(result[1].val)
    /\ logged = {"Ripple starting up", "Configuration loaded successfully",
                 "Metrics system initialized", "Metrics server listening",
                 "Ripple proxy listening"}
    /\ app_state = Some(result[1].val)
    /\ metrics_task = "listening"
    /\ primary = "accepting"
    /\ inflight = 0
    /\ handlers = TRUE
    /\ pending = {}
    /\ cause = None
    /\ registry = register_metrics(<<>>).registry
    /\ register_calls = 1
    /\ panics = 0
    /\ counters = <<>>
    /\ gauges = [g \in IntGauges |-> 0]
    /\ gauge_test = GaugeTestIdle
    /\ NotScraped
    /\ ProbesIdle
    /\ NoError

NextHealth ==
    \/ Accept
    \/ Complete
    \/ \E s \in Signals : Deliver(s)
    \/ ShutdownSignal
    \/ StoreChange
    \/ Liveness
    \/ Readiness
    \/ DetailedStatus

SpecHealth == InitHealth /\ [][NextHealth]_vars

(***************************************************************************)
(* The error taxonomy (src/src/utils/errors.rs)                            *)
(***************************************************************************)

\* u64 / usize fields are displayed in decimal.
Decimal(n) == Text(FormatUnsigned(n))

NetworkErrorDisplay(e) ==
    CASE e.kind = "ConnectionFailed" ->
           <<"Connection failed to ", e.endpoint, ": ", e.details>>
      [] e.kind = "Timeout" ->
           <<"Request timed out after ", Decimal(e.timeout_ms), "ms to ", e.endpoint>>
      [] e.kind = "TlsError" ->
           <<"TLS error connecting to ", e.endpoint, ": ", e.details>>
      [] e.kind = "DnsError" ->
           <<"DNS resolution failed for ", e.host, ": ", e.details>>

CacheErrorDisplay(e) ==
    CASE e.kind = "ReadFailed" ->
           <<"Cache read failed for key '", e.key, "': ", e.details>>
      [] e.kind = "WriteFailed" ->
           <<"Cache write failed for key '", e.key, "': ", e.details>>
      [] e.kind = "InvalidationFailed" ->
           <<"Cache invalidation failed: ", e.details>>
      [] e.kind = "CapacityExceeded" ->
           <<"Cache capacity exceeded (max: ", Decimal(e.max_size), ")">>

EmbeddingErrorDisplay(e) ==
    CASE e.kind = "ModelLoadFailed" ->
           <<"Failed to load embedding model from '", e.path, "': ", e.details>>
      [] e.kind = "InferenceFailed" ->
           <<"Embedding inference failed: ", e.details>>
      [] e.kind = "TokenizationFailed" ->
           <<"Tokenization failed for input: ", e.details>>
      [] e.kind = "DimensionMismatch" ->
           <<"Invalid embedding dimensions: expected ", Decimal(e.expected),
             ", got ", Decimal(e.actual)>>

VectorStoreErrorDisplay(e) ==
    CASE e.kind = "ConnectionFailed" ->
           <<"Vector store connection failed: ", e.details>>
      [] e.kind = "CollectionNotFound" ->
           <<"Collection '", e.collection, "' not found">>
      [] e.kind = "InsertionFailed" ->
           <<"Vector insertion failed: ", e.details>>
      [] e.kind = "SearchFailed" ->
           <<"Vector search failed: ", e.details>>
      [] e.kind = "DeletionFailed" ->
           <<"Vector deletion failed: ", e.details>>

UpstreamApiErrorDisplay(e) ==
    CASE e.kind = "RequestFailed" ->
           <<"Upstream API request failed (", e.provider, "): ", e.details>>
      [] e.kind = "RateLimited" ->
           <<"Upstream API rate limited (", e.provider, "): retry after ",
             Decimal(e.retry_after_secs), "s">>
      [] e.kind = "InvalidResponse" ->
           <<"Invalid response from upstream (", e.provider, "): ", e.details>>
      [] e.kind = "InvalidApiKey" ->
           <<"Upstream API key invalid for ", e.provider>>

AuthenticationErrorDisplay(e) ==
    CASE e.kind = "MissingApiKey" -> <<"Missing API key in request">>
      [] e.kind = "InvalidApiKey" -> <<"Invalid API key">>
      [] e.kind = "ExpiredApiKey" -> <<"API key expired">>
      [] e.kind = "InsufficientPermissions" ->
           <<"Insufficient permissions for tenant '", e.tenant_id, "'">>

ValidationErrorDisplay(e) ==
    CASE e.kind = "InvalidFormat" -> <<"Invalid request format: ", e.details>>
      [] e.kind = "MissingField" -> <<"Missing required field: ", e.field>>
      [] e.kind = "ValueTooLarge" ->
           <<"Field '", e.field, "' value too large: max ", e.max>>
      [] e.kind = "UnsupportedModel" -> <<"Unsupported model: ", e.model>>

\* A subsystem error is carried with the name of its enum.
Display(x) ==
    CASE x.type = "ConfigurationError" -> ConfigurationErrorDisplay(x.error)
      [] x.type = "NetworkError" -> NetworkErrorDisplay(x.error)
      [] x.type = "CacheError" -> CacheErrorDisplay(x.error)
      [] x.type = "EmbeddingError" -> EmbeddingErrorDisplay(x.error)
      [] x.type = "VectorStoreError" -> VectorStoreErrorDisplay(x.error)
      [] x.type = "UpstreamApiError" -> UpstreamApiErrorDisplay(x.error)
      [] x.type = "AuthenticationError" -> AuthenticationErrorDisplay(x.error)
      [] x.type = "ValidationError" -> ValidationErrorDisplay(x.error)

\* to_string(): the pieces written one after the other.
RECURSIVE to_string(_)
to_string(pieces) ==
    IF pieces = <<>> THEN "" ELSE Head(pieces) \o to_string(Tail(pieces))

\* The From impls that #[from] derives: one variant per subsystem enum.
From(x) ==
    [variant |-> CASE x.type = "ConfigurationError" -> "Configuration"
                   [] x.type = "NetworkError" -> "Network"
                   [] x.type = "CacheError" -> "Cache"
                   [] x.type = "EmbeddingError" -> "Embedding"
                   [] x.type = "VectorStoreError" -> "VectorStore"
                   [] x.type = "UpstreamApiError" -> "UpstreamApi"
                   [] x.type = "AuthenticationError" -> "Authentication"
                   [] x.type = "ValidationError" -> "Validation",
     inner |-> x]

\* RippleError::Internal(String)
Internal(s) == [variant |-> "Internal", inner |-> s]

\* A Display of RippleError whose templates name the subsystem and leave
\* the wrapped error out.
RippleErrorDisplay_PrefixOnly(r) ==
    CASE r.variant = "Configuration" -> <<"Configuration error">>
      [] r.variant = "Network" -> <<"Network error">>
      [] r.variant = "Cache" -> <<"Cache error">>
      [] r.variant = "Embedding" -> <<"Embedding error">>
      [] r.variant = "VectorStore" -> <<"Vector store error">>
      [] r.variant = "UpstreamApi" -> <<"Upstream API error">>
      [] r.variant = "Authentication" -> <<"Authentication error">>
      [] r.variant = "Validation" -> <<"Validation error">>
      [] r.variant = "Internal" -> <<"Internal error: ", r.inner>>

\* The Display of RippleError: each #[error("<prefix>: {0}")] template.
RippleErrorDisplay(r) ==
    CASE r.variant = "Configuration" -> <<"Configuration error: ">> \o Display(r.inner)
      [] r.variant = "Network" -> <<"Network error: ">> \o Display(r.inner)
      [] r.variant = "Cache" -> <<"Cache error: ">> \o Display(r.inner)
      [] r.variant = "Embedding" -> <<"Embedding error: ">> \o Display(r.inner)
      [] r.variant = "VectorStore" -> <<"Vector store error: ">> \o Display(r.inner)
      [] r.variant = "UpstreamApi" -> <<"Upstream API error: ">> \o Display(r.inner)
      [] r.variant = "Authentication" ->
           <<"Authentication error: ">> \o Display(r.inner)
      [] r.variant = "Validation" -> <<"Validation error: ">> \o Display(r.inner)
      [] r.variant = "Internal" -> <<"Internal error: ", r.inner>>

\* The texts and numbers the fields of the errors are drawn from.
Details == {"certificate expired", ""}

Endpoints == {"api.example.com"}

Amounts == {0, 5000}

Wrap(type, errors) == {[type |-> type, error |-> e] : e \in errors}

\* The errors the subsystems return: every variant of every enum.
SubsystemErrors ==
    Wrap("ConfigurationError",
         {MissingField("KEY"),
          InvalidFormat("QDRANT_URL", <<"f", "t", "p">>, "URL"),
          InvalidRange("PORT", <<"8", "0">>, "1024", "65535"),
          ParseError("PORT", <<"a", "b", "c">>, "u16", "invalid digit")})
    \cup Wrap("NetworkError",
         {[kind |-> "ConnectionFailed", endpoint |-> ep, details |-> d] :
              ep \in Endpoints, d \in Details}
         \cup {[kind |-> "Timeout", endpoint |-> ep, timeout_ms |-> n] :
              ep \in Endpoints, n \in Amounts}
         \cup {[kind |-> "TlsError", endpoint |-> ep, details |-> d] :
              ep \in Endpoints, d \in Details}
         \cup {[kind |-> "DnsError", host |-> ep, details |-> d] :
              ep \in Endpoints, d \in Details})
    \cup Wrap("CacheError",
         {[kind |-> k, key |-> "q:1", details |-> d] :
              k \in {"ReadFailed", "WriteFailed"}, d \in Details}
         \cup {[kind |-> "InvalidationFailed", details |-> d] : d \in Details}
         \cup {[kind |-> "CapacityExceeded", max_size |-> n] : n \in Amounts})
    \cup Wrap("EmbeddingError",
         {[kind |-> "ModelLoadFailed", path |-> "./models/m.onnx", details |-> d] :
              d \in Details}
         \cup {[kind |-> k, details |-> d] :
              k \in {"InferenceFailed", "TokenizationFailed"}, d \in Details}
         \cup {[kind |-> "DimensionMismatch", expected |-> 768, actual |-> n] :
              n \in Amounts})
    \cup Wrap("VectorStoreError",
         {[kind |-> k, details |-> d] :
              k \in {"ConnectionFailed", "InsertionFailed", "SearchFailed",
                     "DeletionFailed"}, d \in Details}
         \cup {[kind |-> "CollectionNotFound", collection |-> "ripple_cache"]})
    \cup Wrap("UpstreamApiError",
         {[kind |-> k, provider |-> "Anthropic", details |-> d] :
              k \in {"RequestFailed", "InvalidResponse"}, d \in Details}
         \cup {[kind |-> "RateLimited", provider |-> "OpenAI", retry_after_secs |-> n] :
              n \in Amounts}
         \cup {[kind |-> "InvalidApiKey", provider |-> "Anthropic"]})
    \cup Wrap("AuthenticationError",
         {[kind |-> k] : k \in {"MissingApiKey", "InvalidApiKey", "ExpiredApiKey"}}
         \cup {[kind |-> "InsufficientPermissions", tenant_id |-> "t-1"]})
    \cup Wrap("ValidationError",
         {[kind |-> "InvalidFormat", details |-> d] : d \in Details}
         \cup {[kind |-> "MissingField", field |-> "model"],
               [kind |-> "ValueTooLarge", field |-> "max_tokens", max |-> "4096"],
               [kind |-> "UnsupportedModel", model |-> "gpt-x"]})

InternalMessages == {"something broke", "Network error: down", ""}

\* A subsystem returns Err(x).
Fail(x) ==
    /\ raised = None
    /\ unified = None
    /\ raised' = Some(x)
    /\ UNCHANGED <<cfgVars, procVars, metricVars, probeVars, unified, shown, gauge_test, scrapeVars>>

\* `?` or .into(): the error is converted into RippleError.
Into ==
    /\ raised # None
    /\ unified = None
    /\ unified' = Some(From(raised[1]))
    /\ UNCHANGED <<cfgVars, procVars, metricVars, probeVars, raised, shown, gauge_test, scrapeVars>>

\* RippleError::Internal(s) is built directly.
NewInternal(s) ==
    /\ raised = None
    /\ unified = None
    /\ unified' = Some(Internal(s))
    /\ UNCHANGED <<cfgVars, procVars, metricVars, probeVars, raised, shown, gauge_test, scrapeVars>>

\* err.to_string()
Render ==
    /\ unified # None
    /\ shown = None
    /\ shown' = Some(to_string(RippleErrorDisplay(unified[1])))
    /\ UNCHANGED <<cfgVars, procVars, metricVars, probeVars, raised, unified, gauge_test, scrapeVars>>

InitErrors ==
    /\ env = EmptyEnv
    /\ base = EmptyEnv
    /\ parallelism = Some(8)
    /\ result = None
    /\ ProcessNotStarted
    /\ MetricsFresh
    /\ ProbesIdle
    /\ NoError

NextErrors ==
    \/ \E x \in SubsystemErrors : Fail(x)
    \/ Into
    \/ \E s \in InternalMessages : NewInternal(s)
    \/ Render

SpecErrors == InitErrors /\ [][NextErrors]_vars

(***************************************************************************)
(* Concurrent writers and the /metrics snapshot                            *)
(* (src/src/metrics/prometheus.rs)                                         *)
(***************************************************************************)

\* How many tasks increment the same counter at once.
MaxTasks == 3

Tasks == 1..MaxTasks

\* The label combination all the tasks increment.
SharedSeries == [name |-> "ripple_requests_total", labels |-> <<"openai", "hit">>]

\* The collector each instrument is declared as (lines 21-126).
InstrumentType(name) ==
    IF name \in {"ripple_active_requests", "ripple_cache_size", "ripple_cost_saved_usd"}
    THEN "gauge"
    ELSE IF name \in {"ripple_request_duration_seconds",
                      "ripple_embedding_duration_seconds",
                      "ripple_upstream_duration_seconds"}
    THEN "histogram"
    ELSE "counter"

\* Registry::gather: one family per registered collector, with one metric
\* per child; a family without a metric (a vector none of whose label
\* combinations has been used) is left out.
gather(reg, ctrs, gs) ==
    LET metrics(name) ==
            IF name \in IntGauges
            THEN {[labels |-> <<>>, value |-> gs[name]]}
            ELSE {[labels |-> s.labels, value |-> ctrs[s]] :
                      s \in {x \in DOMAIN ctrs : x.name = name}}
    IN  {[name |-> name, type |-> InstrumentType(name), metrics |-> metrics(name)] :
            name \in {n \in Range(reg) : metrics(n) # {}}}

\* TextEncoder::encode: for each family a HELP line, a TYPE line and one
\* sample line per metric.
encode(families) ==
    UNION {{[line |-> "HELP", name |-> f.name, type |-> f.type,
             labels |-> <<>>, value |-> 0],
            [line |-> "TYPE", name |-> f.name, type |-> f.type,
             labels |-> <<>>, value |-> 0]}
           \cup {[line |-> "sample", name |-> f.name, type |-> f.type,
                  labels |-> m.labels, value |-> m.value] : m \in f.metrics} :
           f \in families}

metrics_handler(reg, ctrs, gs) == encode(gather(reg, ctrs, gs))

\* GET /metrics on the metrics listener.
Scrape ==
    /\ snapshot' = Some(metrics_handler(registry, counters, gauges))
    /\ UNCHANGED <<cfgVars, procVars, metricVars, probeVars, errVars, gauge_test, tasks>>

\* with_label_values(labels): the child is looked up and, when it does not
\* exist yet, created at 0 under the vector's write lock.
TaskLookup(t) ==
    /\ tasks.pc[t] = "start"
    /\ counters' = [x \in (DOMAIN counters) \cup {SharedSeries} |->
                       IF x \in DOMAIN counters THEN counters[x] ELSE 0]
    /\ tasks' = [tasks EXCEPT !.pc[t] = "found"]
    /\ UNCHANGED <<cfgVars, procVars, registry, register_calls, panics, gauges,
                   probeVars, errVars, gauge_test, snapshot>>

\* An inc() that stores the value read before the tasks ran, plus one.
TaskInc_StaleWrite(t) ==
    /\ tasks.pc[t] = "found"
    /\ counters' = [counters EXCEPT ![SharedSeries] = tasks.initial + 1]
    /\ tasks' = [tasks EXCEPT !.pc[t] = "done"]
    /\ UNCHANGED <<cfgVars, procVars, registry, register_calls, panics, gauges,
                   probeVars, errVars, gauge_test, snapshot>>

\* inc() on the child: one atomic fetch_add.
TaskInc(t) ==
    /\ tasks.pc[t] = "found"
    /\ counters' = [counters EXCEPT ![SharedSeries] = @ + 1]
    /\ tasks' = [tasks EXCEPT !.pc[t] = "done"]
    /\ UNCHANGED <<cfgVars, procVars, registry, register_calls, panics, gauges,
                   probeVars, errVars, gauge_test, snapshot>>

\* The tasks are about to run; the counter may have been used before.
InitScrape ==
    /\ env = EmptyEnv
    /\ base = EmptyEnv
    /\ parallelism = Some(8)
    /\ result = None
    /\ ProcessNotStarted
    /\ registry = <<>>
    /\ register_calls = 0
    /\ panics = 0
    /\ counters \in {<<>>} \cup {[x \in {SharedSeries} |-> n] : n \in 0..MaxCount}
    /\ gauges = [g \in IntGauges |-> 0]
    /\ gauge_test = GaugeTestIdle
    /\ ProbesIdle
    /\ NoError
    /\ tasks = [pc |-> [t \in Tasks |-> "start"], initial |-> CounterValue(SharedSeries)]
    /\ snapshot = None

NextScrape ==
    \/ CallRegisterMetrics
    \/ \E t \in Tasks : TaskLookup(t)
    \/ \E t \in Tasks : TaskInc(t)
    \/ Scrape

SpecScrape == InitScrape /\ [][NextScrape]_vars

(***************************************************************************)
(* The specification's statement of the configuration contract: the        *)
(* documented defaults and the table of validation rules, against which    *)
(* the claims measure Config::load.                                        *)
(***************************************************************************)

TypedKeys ==
    {"RIPPLE_PORT", "RIPPLE_WORKERS", "EMBEDDING_DIMENSION", "EMBEDDING_BATCH_SIZE",
     "EMBEDDING_CACHE_SIZE", "SIMILARITY_THRESHOLD", "CACHE_TTL_HOURS",
     "MAX_CACHE_SIZE", "ENABLE_L1_CACHE", "L1_CACHE_SIZE", "METRICS_ENABLED",
     "METRICS_PORT"}

\* The Config field each variable is loaded into.
FieldOf(c, k) ==
    CASE k = "RIPPLE_PORT" -> c.port
      [] k = "RIPPLE_WORKERS" -> c.workers
      [] k = "EMBEDDING_DIMENSION" -> c.embedding_dimension
      [] k = "EMBEDDING_BATCH_SIZE" -> c.embedding_batch_size
      [] k = "EMBEDDING_CACHE_SIZE" -> c.embedding_cache_size
      [] k = "SIMILARITY_THRESHOLD" -> c.similarity_threshold
      [] k = "CACHE_TTL_HOURS" -> c.cache_ttl_hours
      [] k = "MAX_CACHE_SIZE" -> c.max_cache_size
      [] k = "ENABLE_L1_CACHE" -> c.enable_l1_cache
      [] k = "L1_CACHE_SIZE" -> c.l1_cache_size
      [] k = "METRICS_ENABLED" -> c.metrics_enabled
      [] k = "METRICS_PORT" -> c.metrics_port
      [] k = "RIPPLE_HOST" -> c.host
      [] k = "QDRANT_URL" -> c.qdrant_url
      [] k = "QDRANT_COLLECTION_NAME" -> c.qdrant_collection_name
      [] k = "EMBEDDING_MODEL_PATH" -> c.embedding_model_path
      [] k = "LOG_LEVEL" -> c.log_level
      [] k = "LOG_FORMAT" -> c.log_format

\* The documented default of each setting that has one.
DocumentedDefault(k) ==
    CASE k = "RIPPLE_PORT" -> 8080
      [] k = "RIPPLE_WORKERS" -> IF IsSome(parallelism) THEN parallelism[1] ELSE 4
      [] k = "EMBEDDING_DIMENSION" -> 768
      [] k = "EMBEDDING_BATCH_SIZE" -> 10
      [] k = "EMBEDDING_CACHE_SIZE" -> 10000
      [] k = "SIMILARITY_THRESHOLD" -> Finite(85)
      [] k = "CACHE_TTL_HOURS" -> 168
      [] k = "MAX_CACHE_SIZE" -> 10000000
      [] k = "ENABLE_L1_CACHE" -> TRUE
      [] k = "L1_CACHE_SIZE" -> 10000
      [] k = "METRICS_ENABLED" -> TRUE
      [] k = "METRICS_PORT" -> 9090
      [] k = "RIPPLE_HOST" -> <<"0", ".", "0", ".", "0", ".", "0">>
      [] k = "QDRANT_URL" -> <<"h", "t", "t", "p", ":", "/", "/", "l", "o", "c", "a", "l", "h", "o", "s", "t", ":", "6", "3", "3", "3">>
      [] k = "QDRANT_COLLECTION_NAME" -> <<"c", "a", "c", "h", "e", "_", "v", "e", "c", "t", "o", "r", "s">>
      [] k = "EMBEDDING_MODEL_PATH" -> <<".", "/", "m", "o", "d", "e", "l", "s", "/", "n", "o", "m", "i", "c", "-", "e", "m", "b", "e", "d", "-", "t", "e", "x", "t", ".", "o", "n", "n", "x">>
      [] k = "LOG_LEVEL" -> <<"i", "n", "f", "o">>
      [] k = "LOG_FORMAT" -> <<"t", "e", "x", "t">>

DefaultedKeys == TypedKeys \cup {"RIPPLE_HOST", "QDRANT_URL", "QDRANT_COLLECTION_NAME",
                                 "EMBEDDING_MODEL_PATH", "LOG_LEVEL", "LOG_FORMAT"}

\* The value the text of a variable denotes: Some(value), or None when the
\* text is not a literal of the setting's type.
Denoted(k, raw) ==
    IF k \in TypedKeys
    THEN (CHOOSE c \in InputChoices(k) : c.raw = raw).denotes
    ELSE Some(raw)

\* The value supplied for a setting: what the variable denotes, or the
\* documented default when the variable is absent.
Supplied(k) ==
    IF IsSome(env[k]) THEN Denoted(k, env[k][1]) ELSE Some(DocumentedDefault(k))

Malformed(k) == k \in TypedKeys /\ IsSome(env[k]) /\ Denoted(k, env[k][1]) = None

WellFormed == \A k \in TypedKeys : ~Malformed(k)

\* The eleven rules in their canonical order, each named by its variable.
CanonicalOrder ==
    <<"RIPPLE_PORT", "METRICS_PORT", "SIMILARITY_THRESHOLD", "CACHE_TTL_HOURS",
      "RIPPLE_WORKERS", "MAX_CACHE_SIZE", "EMBEDDING_DIMENSION", "QDRANT_URL",
      "LOG_LEVEL", "LOG_FORMAT", "QDRANT_COLLECTION_NAME">>

\* [A-Za-z0-9_-]
NameCharacter(ch) ==
    \/ ch \in Range(AsciiLower) \/ ch \in Range(AsciiUpper)
    \/ ch \in Range(AsciiDigits) \/ ch \in {"_", "-"}

\* The rule table's "condition for failure", on a value v of the setting.
RuleFails(k, v) ==
    CASE k \in {"RIPPLE_PORT", "METRICS_PORT"} -> v < 1024
      [] k = "SIMILARITY_THRESHOLD" -> ~(v.class = "finite" /\ v.h >= 0 /\ v.h <= 100)
      [] k = "CACHE_TTL_HOURS" -> v = 0
      [] k = "RIPPLE_WORKERS" -> v = 0 \/ v > 128
      [] k = "MAX_CACHE_SIZE" -> v = 0
      [] k = "EMBEDDING_DIMENSION" -> v = 0 \/ v > 4096
      [] k = "QDRANT_URL" ->
           ~(\/ (Len(v) >= 7 /\ SubSeq(v, 1, 7) = <<"h", "t", "t", "p", ":", "/", "/">>)
             \/ (Len(v) >= 8 /\ SubSeq(v, 1, 8) = <<"h", "t", "t", "p", "s", ":", "/", "/">>))
      [] k = "LOG_LEVEL" ->
           to_lowercase(v) \notin {<<"t", "r", "a", "c", "e">>, <<"d", "e", "b", "u", "g">>, <<"i", "n", "f", "o">>, <<"w", "a", "r", "n">>, <<"e", "r", "r", "o", "r">>}
      [] k = "LOG_FORMAT" -> to_lowercase(v) \notin {<<"t", "e", "x", "t">>, <<"j", "s", "o", "n">>}
      [] k = "QDRANT_COLLECTION_NAME" ->
           v = <<>> \/ \E i \in 1..Len(v) : ~NameCharacter(v[i])

\* The error kind the rule table lists for a failure of rule k on value v.
RuleKind(k, v) ==
    IF k \in {"QDRANT_URL", "LOG_LEVEL", "LOG_FORMAT"} THEN "InvalidFormat"
    ELSE IF k = "QDRANT_COLLECTION_NAME"
    THEN (IF v = <<>> THEN "MissingField" ELSE "InvalidFormat")
    ELSE "InvalidRange"

\* The bounds the rule table lists for the range rules that state them.
RuleBounds(k) ==
    CASE k \in {"RIPPLE_PORT", "METRICS_PORT"} -> <<"1024", "65535">>
      [] k = "CACHE_TTL_HOURS" -> <<"1", "unlimited">>
      [] k = "RIPPLE_WORKERS" -> <<"1", "128">>
      [] k = "MAX_CACHE_SIZE" -> <<"1", "unlimited">>
      [] k = "EMBEDDING_DIMENSION" -> <<"1", "4096">>
      [] OTHER -> <<>>

\* The rules the supplied values violate (for a well-formed environment).
ViolatedRules ==
    {i \in 1..Len(CanonicalOrder) :
        RuleFails(CanonicalOrder[i], Supplied(CanonicalOrder[i])[1])}

\* A Config satisfies all eleven rules at once.
SatisfiesAllRules(c) ==
    \A i \in 1..Len(CanonicalOrder) :
        ~RuleFails(CanonicalOrder[i], FieldOf(c, CanonicalOrder[i]))

Loaded == IsSome(result)

LoadedOk == Loaded /\ result[1].ok

LoadedErr == Loaded /\ ~result[1].ok

(***************************************************************************)
(* Claims about configuration loading, checked under SpecConfig            *)
(***************************************************************************)

\* C1: every Config that Config::load returns satisfies all eleven
\* validation rules of the rule table at once, and for every environment
\* that violates at least one rule load returns a ConfigurationError and
\* no Config.
C1_LoadedConfigSatisfiesEveryRule ==
    /\ LoadedOk => SatisfiesAllRules(result[1].val)
    /\ (Loaded /\ WellFormed /\ ViolatedRules # {}) => ~result[1].ok

\* The part of C1 that the code keeps: the ten rules other than the
\* collection-name rule hold of every loaded Config.
C1_TenRulesHold ==
    LoadedOk =>
        \A i \in 1..(Len(CanonicalOrder) - 1) :
            ~RuleFails(CanonicalOrder[i], FieldOf(result[1].val, CanonicalOrder[i]))

\* C2: when every supplied value is in range (bounds inclusive), load
\* succeeds and each field of the Config equals the supplied value.
C2_InRangeInputsLoadUnchanged ==
    (Loaded /\ WellFormed /\ ViolatedRules = {}) =>
        /\ result[1].ok
        /\ \A k \in DefaultedKeys : FieldOf(result[1].val, k) = Supplied(k)[1]
        /\ result[1].val.qdrant_api_key = env["QDRANT_API_KEY"]
        /\ result[1].val.openai_api_key = env["OPENAI_API_KEY"]
        /\ result[1].val.anthropic_api_key = env["ANTHROPIC_API_KEY"]
        /\ result[1].val.exa_api_key = env["EXA_API_KEY"]
        /\ result[1].val.log_file_path = env["LOG_FILE_PATH"]

\* C2's case: a load of the upper boundary of every range has succeeded.
C2_Witness ==
    /\ LoadedOk
    /\ result[1].val.port = 65535
    /\ result[1].val.workers = 128
    /\ result[1].val.similarity_threshold = Finite(100)
    /\ result[1].val.embedding_dimension = 4096

\* C3: a configuration that violates exactly one rule is rejected with the
\* error kind the rule table lists (with the rule's bounds for a range
\* rule), and the rendered message contains the variable's name.
C3_SingleViolationReportsItsRule ==
    (Loaded /\ WellFormed /\ Cardinality(ViolatedRules) = 1) =>
        LET k == CanonicalOrder[CHOOSE i \in ViolatedRules : TRUE]
        IN  /\ ~result[1].ok
            /\ result[1].err.kind = RuleKind(k, Supplied(k)[1])
            /\ result[1].err.field = k
            /\ RuleBounds(k) # <<>> =>
                   <<result[1].err.min, result[1].err.max>> = RuleBounds(k)
            /\ MessageContains(ConfigurationErrorDisplay(result[1].err), k)

C5_FirstViolatedRuleIsReported ==
    (Loaded /\ WellFormed /\ Cardinality(ViolatedRules) >= 2) =>
        LET first == CHOOSE i \in ViolatedRules : \A j \in ViolatedRules : i <= j
            k == CanonicalOrder[first]
        IN  /\ ~result[1].ok
            /\ result[1].err.field = k
            /\ result[1].err.kind = RuleKind(k, Supplied(k)[1])

\* C5's case: the cache TTL and the worker count are both out of range and
\* load has failed.
C5_Witness ==
    /\ LoadedErr
    /\ WellFormed
    /\ {4, 5} \subseteq ViolatedRules

\* C6: the collection-name rule fails with MissingField on the empty name
\* and with InvalidFormat on a name with a character outside [A-Za-z0-9_-];
\* a name passes only if it is non-empty and every character is in
\* [A-Za-z0-9_-].
C6_CollectionNameRule ==
    (Loaded /\ WellFormed /\ ViolatedRules \subseteq {11}) =>
        LET name == Supplied("QDRANT_COLLECTION_NAME")[1]
        IN  /\ name = <<>> =>
                /\ ~result[1].ok
                /\ result[1].err = MissingField("QDRANT_COLLECTION_NAME")
            /\ (name # <<>> /\ \E i \in 1..Len(name) : ~NameCharacter(name[i])) =>
                /\ ~result[1].ok
                /\ result[1].err.kind = "InvalidFormat"
                /\ result[1].err.field = "QDRANT_COLLECTION_NAME"
            /\ result[1].ok => (name # <<>> /\ \A i \in 1..Len(name) : NameCharacter(name[i]))

(***************************************************************************)
(* Claim about the metrics registry, checked under SpecMetrics             *)
(***************************************************************************)

Occurrences(reg, name) == Cardinality({j \in 1..Len(reg) : reg[j] = name})

\* C7: calling register_metrics more than once never panics the caller,
\* and after any number of calls the registry holds each of the twelve
\* instruments exactly once.
C7_RepeatedRegistrationNeverPanics ==
    /\ panics = 0
    /\ register_calls > 0 =>
           \A i \in 1..Len(Instruments) : Occurrences(registry, Instruments[i]) = 1

(***************************************************************************)
(* Claims about shutdown, checked under Spec and SpecLive                  *)
(***************************************************************************)

\* C8: after a termination signal the primary listener first stops
\* accepting, then its requests in flight finish, and only after the
\* primary listener has completed is the metrics listener aborted; it is
\* never aborted while the primary listener is serving or draining.
C8_ShutdownOrder ==
    [][/\ (cause = None /\ cause' # None) =>
              (primary = "accepting" /\ primary' = "draining"
                   /\ metrics_task' = metrics_task)
       /\ primary = "draining" =>
              (inflight' <= inflight /\ primary' \in {"draining", "done", "failed"})
       /\ (primary # "done" /\ primary' = "done") =>
              (primary = "draining" /\ inflight = 0 /\ metrics_task' = metrics_task)
       /\ (metrics_task # "aborted" /\ metrics_task' = "aborted") =>
              (primary \in {"done", "failed"} /\ primary' = primary)]_vars

\* C8's case: a signal was taken, the requests drained, the primary
\* listener completed and the metrics listener was then aborted.
C8_Witness ==
    /\ cause # None
    /\ primary = "done"
    /\ metrics_task = "aborted"
    /\ "Metrics server listening" \in logged

\* C9: SIGINT and SIGTERM are raced, the one that resolves first ends the
\* wait, and either of them starts the same shutdown sequence and leaves
\* the same final process state, whatever the order of the two signals.
C9_EitherSignalSameShutdown ==
    [][/\ (cause = None /\ cause' # None) =>
              /\ cause'[1] \in pending
              /\ primary = "accepting" /\ primary' = "draining"
              /\ UNCHANGED <<pc, exit_code, inflight, metrics_task, app_state,
                             handlers, printed, formatter>>
       /\ cause # None => cause' = cause
       /\ (cause' # None /\ pc # "exited" /\ pc' = "exited") =>
              /\ exit_code' = Some(0)
              /\ primary' \in {"done", "failed"}
              /\ primary' = "done" => inflight' = 0
              /\ metrics_task' \in {"aborted", "panicked"}]_vars

\* C9's case: both signals arrived, SIGTERM won the race and the process
\* has exited.
C9_Witness ==
    /\ pc = "exited"
    /\ cause = Some("SIGTERM")
    /\ "SIGINT" \in pending
    /\ primary = "done"

\* C10: once a signal has been received while the service is running, and
\* given that every request in flight completes, the process eventually
\* terminates, with exit code 0.
C10_SignalLeadsToExitZero ==
    (pc = "serving" /\ (pending # {} \/ cause # None))
        ~> (pc = "exited" /\ exit_code = Some(0))

\* C10's case: requests were in flight when SIGINT was taken, they drained
\* and the process has exited with code 0.
C10_Witness ==
    /\ pc = "exited"
    /\ exit_code = Some(0)
    /\ cause = Some("SIGINT")
    /\ primary = "done"

(***************************************************************************)
(* Claims about startup, checked under Spec                                *)
(***************************************************************************)

\* The primary listener's bind has failed: main has logged the address it
\* is about to bind and has ended without a primary listener.
PrimaryBindFailed ==
    pc = "exited" /\ "Ripple proxy listening" \in logged /\ primary = "none"

\* C11: a bind failure of either listener at startup is fatal: the process
\* ends with a non-zero exit code and never serves with only one of its
\* two listeners bound.
C11_BindFailureOfEitherListenerIsFatal ==
    /\ PrimaryBindFailed => (exit_code # None /\ exit_code # Some(0))
    /\ metrics_task = "panicked" =>
           /\ primary \notin {"accepting", "draining"}
           /\ pc = "exited" => exit_code # Some(0)

\* C12: with --validate-config the process loads the configuration and
\* exits, with 0 when load accepted it and 1 when load rejected it, and
\* takes no later startup step: no logging, no registration, no listener.
C12_ValidateOnlyExitsAfterLoad ==
    validate_only =>
        /\ pc \in {"start", "exited", "killed"}
        /\ pc = "exited" =>
               /\ Loaded
               /\ exit_code = Some(IF result[1].ok THEN 0 ELSE 1)
               /\ printed = (IF result[1].ok THEN "Configuration valid"
                             ELSE "Configuration error")
        /\ formatter = "none" /\ logged = {}
        /\ register_calls = 0 /\ registry = <<>>
        /\ app_state = None
        /\ metrics_task = "none" /\ primary = "none" /\ ~handlers

\* C12's case: validate-only runs have ended, one on a valid and one on an
\* invalid configuration (the witness is the invalid one, exit code 1).
C12_Witness ==
    /\ validate_only
    /\ pc = "exited"
    /\ LoadedErr
    /\ exit_code = Some(1)

\* C13: without --validate-config a configuration that load rejects makes
\* the process print the error and exit with code 1, and logging, the
\* registration of the metrics, AppState and both listeners come only
\* after load has succeeded.
C13_InvalidConfigExitsBeforeStartup ==
    /\ (~validate_only /\ LoadedErr) =>
           /\ pc = "exited"
           /\ exit_code = Some(1)
           /\ printed = "Configuration error"
    /\ (formatter # "none" \/ logged # {} \/ register_calls > 0 \/ app_state # None
            \/ metrics_task # "none" \/ primary # "none" \/ handlers) =>
           (LoadedOk /\ ~validate_only)

\* C13's case: a normal start with a port outside its range has printed
\* the error and exited with 1.
C13_Witness ==
    /\ ~validate_only
    /\ pc = "exited"
    /\ LoadedErr
    /\ result[1].err.kind = "InvalidRange"
    /\ exit_code = Some(1)
    /\ printed = "Configuration error"

(***************************************************************************)
(* Claims about the health probes, checked under SpecHealth                *)
(***************************************************************************)

\* The outbound call came back with a success status before the timeout.
SucceededInTime(o) ==
    /\ o.kind = "response"
    /\ o.latency < TimeoutSecs
    /\ o.status \in 200..299

Answered(probe) == response # None /\ response[1].probe = probe

\* C14: the liveness probe answers 200 with status "alive" on every call,
\* whatever the state of the application and of the store, and issues no
\* outbound call.
C14_LivenessAlwaysAlive ==
    [][Liveness =>
          /\ response' = Some([probe |-> "liveness", code |-> 200, status |-> "alive"])
          /\ outbound' = outbound
          /\ last_call' = last_call]_vars

\* C14's case: liveness has answered while the store cannot be reached and
\* the primary listener is draining, with no outbound call made.
C14_Witness ==
    /\ Answered("liveness")
    /\ store = "unreachable"
    /\ primary = "draining"
    /\ outbound = 0

\* C15: the readiness probe answers 200 "ready" if and only if its outbound
\* call came back with a success status within 3 seconds; a connection
\* error, a non-success status and a timeout all give 503 "not_ready".
C15_ReadyIffStoreAnswersInTime ==
    Answered("readiness") =>
        /\ last_call # None
        /\ IF SucceededInTime(last_call[1].outcome)
           THEN response[1].code = 200 /\ response[1].status = "ready"
           ELSE response[1].code = 503 /\ response[1].status = "not_ready"

\* C15's case: readiness has answered 503 to a call that timed out.
C15_Witness ==
    /\ Answered("readiness")
    /\ last_call[1].outcome.kind = "response"
    /\ last_call[1].outcome.latency >= TimeoutSecs
    /\ response[1].code = 503

\* C16: the detailed-status probe answers 200 on every call; its aggregate
\* status is "healthy" exactly when the store check succeeded and
\* "degraded" otherwise, and the store component is "healthy" exactly when
\* the aggregate is.
C16_DetailedStatusAlways200 ==
    Answered("detailed_status") =>
        /\ response[1].code = 200
        /\ last_call # None
        /\ response[1].status =
               (IF SucceededInTime(last_call[1].outcome) THEN "healthy" ELSE "degraded")
        /\ response[1].qdrant \in {"healthy", "unhealthy"}
        /\ response[1].qdrant = "healthy" <=> response[1].status = "healthy"

\* C16's case: detailed status has answered 200 "degraded" with the store
\* returning a non-success status.
C16_Witness ==
    /\ Answered("detailed_status")
    /\ last_call[1].outcome.status = 503
    /\ response[1].code = 200
    /\ response[1].status = "degraded"

(***************************************************************************)
(* Claims about the error taxonomy, checked under SpecErrors               *)
(***************************************************************************)

\* The eight subsystems: the enum of each, its RippleError variant and the
\* name that prefixes its messages.
Subsystems ==
    {[type |-> "ConfigurationError", variant |-> "Configuration", name |-> "Configuration error"],
     [type |-> "NetworkError", variant |-> "Network", name |-> "Network error"],
     [type |-> "CacheError", variant |-> "Cache", name |-> "Cache error"],
     [type |-> "EmbeddingError", variant |-> "Embedding", name |-> "Embedding error"],
     [type |-> "VectorStoreError", variant |-> "VectorStore", name |-> "Vector store error"],
     [type |-> "UpstreamApiError", variant |-> "UpstreamApi", name |-> "Upstream API error"],
     [type |-> "AuthenticationError", variant |-> "Authentication", name |-> "Authentication error"],
     [type |-> "ValidationError", variant |-> "Validation", name |-> "Validation error"]}

SubsystemOf(type) == CHOOSE s \in Subsystems : s.type = type

\* C17: converting a subsystem error into RippleError gives the variant of
\* that subsystem and of no other, and a message that is the subsystem's
\* name, ": " and the original message unchanged.
C17_ConversionKeepsTheMessage ==
    (raised # None /\ unified # None) =>
        /\ unified[1].variant = SubsystemOf(raised[1].type).variant
        /\ unified[1].inner = raised[1]
        /\ \A s \in Subsystems :
               s.variant = unified[1].variant => s.type = raised[1].type
        /\ shown # None =>
               shown[1] = SubsystemOf(raised[1].type).name \o ": "
                              \o to_string(Display(raised[1]))

\* C17's case: a rate-limit error of the upstream API has been converted
\* and rendered.
C17_Witness ==
    /\ raised # None
    /\ raised[1].type = "UpstreamApiError"
    /\ raised[1].error.kind = "RateLimited"
    /\ shown # None

\* C18: the rendered message of RippleError::Internal(s) is the string s
\* verbatim.
C18_InternalMessageVerbatim ==
    (unified # None /\ unified[1].variant = "Internal" /\ shown # None) =>
        shown[1] = unified[1].inner

(***************************************************************************)
(* Claims about counters and gauges, checked under SpecMetrics             *)
(***************************************************************************)

\* C19: no operation ever lowers a counter; an increment for one label
\* combination raises that counter by exactly 1 (so two of them give the
\* initial value plus 2) and leaves every other label combination as it
\* was.
C19_CountersOnlyGrowByOne ==
    [][LET after(s) == IF s \in DOMAIN counters' THEN counters'[s] ELSE 0
       IN  /\ \A s \in CounterSeries : after(s) >= CounterValue(s)
           /\ \A s \in CounterSeries :
                  CounterInc(s) =>
                      /\ after(s) = CounterValue(s) + 1
                      /\ \A o \in CounterSeries \ {s} : after(o) = CounterValue(o)]_vars

\* C19's case: one label combination has been incremented twice from 0 and
\* stands at 2, while another of the same vector has been incremented once.
C19_Witness ==
    /\ CounterValue([name |-> "ripple_cache_hits_total", labels |-> <<"l1">>]) = 2
    /\ CounterValue([name |-> "ripple_cache_hits_total", labels |-> <<"l2">>]) = 1
    /\ CounterValue([name |-> "ripple_requests_total", labels |-> <<"openai", "hit">>]) = 0

\* C20: with no other writer, a gauge set to v reads v, reads v + 1 after
\* one increment and reads v again after one decrement.
C20_SetIncDecReturnsToSetValue ==
    /\ gauge_test.pc \in {"set", "inc"} =>
           gauges[TestedGauge] = gauge_test.seen[Len(gauge_test.seen)]
    /\ gauge_test.pc \in {"inc", "dec"} =>
           gauge_test.seen[2] = gauge_test.seen[1] + 1
    /\ gauge_test.pc = "dec" =>
           /\ Len(gauge_test.seen) = 3
           /\ gauge_test.seen[3] = gauge_test.seen[1]

\* C20's case: the gauge was set to 0, incremented and decremented, and
\* the three reads were 0, 1, 0.
C20_Witness ==
    /\ gauge_test.pc = "dec"
    /\ gauge_test.seen = <<0, 1, 0>>

(***************************************************************************)
(* Claims about concurrent updates and the snapshot, checked under         *)
(* SpecScrape                                                              *)
(***************************************************************************)

TasksDone == {t \in Tasks : tasks.pc[t] = "done"}

\* The values the snapshot shows for the shared label combination.
SnapshotValues ==
    {l.value : l \in {x \in snapshot[1] :
                         /\ x.line = "sample"
                         /\ x.name = SharedSeries.name
                         /\ x.labels = SharedSeries.labels}}

\* C21: when N tasks each increment the same label combination once, in
\* any interleaving, no update is lost (the counter ends at its initial
\* value plus N), and a snapshot taken meanwhile shows no value outside
\* the range from the initial to the final value.
C21_NoLostUpdate ==
    /\ CounterValue(SharedSeries) = tasks.initial + Cardinality(TasksDone)
    /\ TasksDone = Tasks => CounterValue(SharedSeries) = tasks.initial + MaxTasks
    /\ snapshot # None =>
           \A v \in SnapshotValues : tasks.initial <= v /\ v <= tasks.initial + MaxTasks

\* C21's case: every task has incremented and a snapshot taken in between
\* shows the counter one above its initial value.
C21_Witness ==
    /\ TasksDone = Tasks
    /\ CounterValue(SharedSeries) = tasks.initial + MaxTasks
    /\ snapshot # None
    /\ SnapshotValues = {tasks.initial + 1}

\* C22: after register_metrics the snapshot the metrics handler returns
\* has, for each of the twelve instruments, a TYPE line with its name.
C22_SnapshotHasTypeLineForEach ==
    (snapshot # None /\ register_calls > 0) =>
        \A i \in 1..Len(Instruments) :
            \E l \in snapshot[1] : l.line = "TYPE" /\ l.name = Instruments[i]

(***************************************************************************)
(* Further claims about the health probes, checked under SpecHealth        *)
(***************************************************************************)

\* C23: each call of the readiness or the detailed-status probe issues
\* exactly one outbound call and does not retry it; the check, failed or
\* not, changes nothing of the process (it keeps serving, both listeners
\* stay as they are), and the answer depends on the outcome of this call
\* alone, whatever earlier checks returned.
C23_OneCallPerProbeNoRetry ==
    [][/\ (Readiness \/ DetailedStatus) => outbound' = outbound + 1
       /\ outbound' # outbound =>
              /\ outbound' = outbound + 1
              /\ UNCHANGED <<cfgVars, procVars, metricVars, store>>
              /\ last_call' # None /\ response' # None
              /\ response'[1].probe = "readiness" =>
                     (response'[1].code = 200
                          <=> SucceededInTime(last_call'[1].outcome))
              /\ response'[1].probe = "detailed_status" =>
                     (response'[1].status = "healthy"
                          <=> SucceededInTime(last_call'[1].outcome))]_vars

\* C23's case: after an earlier outbound call, a check against the store
\* that cannot be reached has failed, and the process still serves with
\* both listeners up.
C23_Witness ==
    /\ outbound = MaxProbes
    /\ Answered("readiness")
    /\ response[1].code = 503
    /\ last_call[1].outcome.kind = "connect_error"
    /\ pc = "serving" /\ primary = "accepting" /\ metrics_task = "listening"
    /\ exit_code = None

(***************************************************************************)
(* Further claims about the process, checked under Spec                    *)
(***************************************************************************)

\* C24: when the primary listener ends with an error after it was bound,
\* while serving or while draining, the error is logged, the metrics task
\* is still aborted and the exit code is still 0; once the primary listener
\* has been bound no exit code other than 0 is produced.
C24_ServeErrorStillExitsZero ==
    /\ primary = "failed" => "Server error" \in logged
    /\ (primary = "failed" /\ pc \in {"return", "exited"}) =>
           /\ "Ripple shutting down gracefully" \in logged
           /\ metrics_task \in {"aborted", "panicked"}
    /\ (primary # "none" /\ exit_code # None) => exit_code = Some(0)

\* C24's case: the listener failed while draining after a signal, the
\* metrics listener that was up has been aborted and the exit code is 0.
C24_Witness ==
    /\ pc = "exited"
    /\ primary = "failed"
    /\ cause # None
    /\ metrics_task = "aborted"
    /\ exit_code = Some(0)

\* C25: the task pool that runs the listeners has as many worker threads as
\* the configured worker count.
C25_WorkerThreadsEqualConfigured ==
    app_state # None => worker_threads(parallelism) = app_state[1].workers

\* C27: every startup that gets past the loading of the configuration, the
\* initialisation of logging and the registration of the metrics spawns the
\* metrics listener, with metrics_enabled true or false.
C27_MetricsListenerSpawnedWhateverTheToggle ==
    /\ pc \in {"bind", "serving", "shutdown", "return"} => metrics_task # "none"
    /\ primary # "none" => metrics_task # "none"

\* C27's case: metrics are switched off in the configuration and both
\* listeners are up.
C27_Witness ==
    /\ app_state # None
    /\ ~app_state[1].metrics_enabled
    /\ metrics_task = "listening"
    /\ primary = "accepting"

\* C28: logging::init selects the JSON formatter for every log_format that
\* validation accepts as json (in any letter case), and the text formatter
\* for every one accepted as text.
C28_FormatterAgreesWithValidation ==
    formatter # "none" =>
        (formatter = "json"
             <=> to_lowercase(result[1].val.log_format) = <<"j", "s", "o", "n">>)

(***************************************************************************)
(* Further claims about configuration loading, checked under SpecConfig    *)
(***************************************************************************)

\* The typed variables in the order of the fields they are loaded into.
DeclarationOrder ==
    <<"RIPPLE_PORT", "RIPPLE_WORKERS", "EMBEDDING_DIMENSION", "EMBEDDING_BATCH_SIZE",
      "EMBEDDING_CACHE_SIZE", "SIMILARITY_THRESHOLD", "CACHE_TTL_HOURS",
      "MAX_CACHE_SIZE", "ENABLE_L1_CACHE", "L1_CACHE_SIZE", "METRICS_ENABLED",
      "METRICS_PORT">>

MalformedPositions == {i \in 1..Len(DeclarationOrder) : Malformed(DeclarationOrder[i])}

\* The validated settings whose present, parseable value breaks their rule.
ParseableButInvalid ==
    {k \in {CanonicalOrder[i] : i \in 1..Len(CanonicalOrder)} :
        /\ IsSome(env[k])
        /\ Denoted(k, env[k][1]) # None
        /\ RuleFails(k, Denoted(k, env[k][1])[1])}

UncheckedKeys ==
    {"RIPPLE_HOST", "EMBEDDING_MODEL_PATH", "EMBEDDING_BATCH_SIZE",
     "EMBEDDING_CACHE_SIZE", "L1_CACHE_SIZE"}

CredentialKeys == {"QDRANT_API_KEY", "OPENAI_API_KEY", "ANTHROPIC_API_KEY", "EXA_API_KEY"}

\* C29: validation places no constraint on the host, the model path, the
\* three sizes or the optional credentials: when the eleven checked fields
\* are valid, load succeeds with whatever parseable value these settings
\* have (0 for the sizes and the empty host included), and no validation
\* error ever names one of them.
C29_UncheckedFieldsNeverRejected ==
    /\ (Loaded /\ WellFormed /\ ViolatedRules = {}) =>
           /\ result[1].ok
           /\ \A k \in UncheckedKeys : FieldOf(result[1].val, k) = Supplied(k)[1]
    /\ (LoadedErr /\ result[1].err.kind # "ParseError") =>
           result[1].err.field \notin UncheckedKeys \cup CredentialKeys

\* C29's case: a load with an embedding batch size of 0 and the empty host
\* has succeeded.
C29_Witness ==
    /\ LoadedOk
    /\ env["EMBEDDING_BATCH_SIZE"] = Some(<<"0">>)
    /\ env["RIPPLE_HOST"] = Some(<<>>)
    /\ result[1].val.embedding_batch_size = 0
    /\ result[1].val.host = <<>>

=============================================================================
